---- MODULE Spec2Model ----
(***************************************************************************)
(* Model of the idealista extraction core (src/html_processor.py):         *)
(*   extract_full_property_info_css_selector, flatten_property_info and    *)
(*   extract_detailed_property_features,                                   *)
(* of its batch caller (src/app.py: process_all_data, remove_duplicates)   *)
(* and of the store (src/database.py: insert_property_data,                *)
(* get_all_properties).  Each of the three is explored by a specification  *)
(* of its own (Spec, SpecApp, SpecDb) while the other two are at rest.     *)
(*                                                                         *)
(* Python values are tagged records (PyNone, PyStr, PyInt, PyBool, PyList, *)
(* PyDict); a dict is the sequence of its items in insertion order.  The   *)
(* parsed document (BeautifulSoup's tree) is a record holding the elements *)
(* the extractors look up.  Text is a TLA+ string and the str methods the  *)
(* code calls (find, in, split, strip, replace, upper, join) are operators *)
(* over strings computing what the Python methods compute.                 *)
(***************************************************************************)
EXTENDS Integers, Sequences, FiniteSets, TLC

VARIABLES fn, html, page_url, pc, exc, property_info, flattened_info,
          property_features, items, idx,
          html_files, data_file, extraction_method, processed_data, previous_data,
          processed_records, file_i, status_text, errors, app_pc,
          properties, df, inserted

\* the state of a call of an extractor
extvars == <<fn, html, page_url, pc, exc, property_info, flattened_info,
             property_features, items, idx>>

\* the state of the session and of process_all_data
appvars == <<html_files, data_file, extraction_method, processed_data, previous_data,
             processed_records, file_i, status_text, errors, app_pc>>

\* the properties table, the last DataFrame read from it, the records inserted
dbvars == <<properties, df, inserted>>

vars == <<extvars, appvars, dbvars>>

(***************************************************************************)
(* Bounds of the explored inputs.                                          *)
(***************************************************************************)
\* longest sequence of link elements in a document
MaxLinks == 2
\* longest list of li elements in a features list
MaxItems == 2
\* most members of a characteristics mapping
MaxKeys == 2
\* most uploaded HTML files in a batch
MaxFiles == 2
\* most rows inserted into the properties table
MaxRows == 3

(***************************************************************************)
(* Python values.                                                          *)
(***************************************************************************)
PyNone == [t |-> "None"]
PyStr(s) == [t |-> "str", s |-> s]
PyInt(n) == [t |-> "int", n |-> n]
PyBool(b) == [t |-> "bool", b |-> b]
PyList(l) == [t |-> "list", l |-> l]
PyDict(d) == [t |-> "dict", d |-> d]

\* the outcome of a computation: a value, or the exception it raised
Ok(v) == [exc |-> "", v |-> v]
Raise(e) == [exc |-> e]

\* one item of a dict: a key (a Python value) and its value
Item(k, v) == [k |-> k, v |-> v]

\* the dict {}
EmptyDict == PyDict(<<>>)

\* bool(v): Python truthiness
Truthy(v) ==
  CASE v.t = "None" -> FALSE
    [] v.t = "str" -> v.s # ""
    [] v.t = "int" -> v.n # 0
    [] v.t = "bool" -> v.b
    [] v.t = "list" -> v.l # <<>>
    [] v.t = "dict" -> v.d # <<>>

\* isinstance(v, dict)
IsDict(v) == v.t = "dict"

\* isinstance(v, list)
IsList(v) == v.t = "list"

\* key in d, for a dict d
HasKey(d, k) == \E i \in 1..Len(d.d) : d.d[i].k = k

\* d[key], for a dict d holding the key
DictGet(d, k) == d.d[CHOOSE i \in 1..Len(d.d) : d.d[i].k = k].v

\* d.get(key, None), for a str key
Get(d, k) == IF HasKey(d, PyStr(k)) THEN DictGet(d, PyStr(k)) ELSE PyNone

\* d[key] = value: replaces in place, or appends a new item
DictSet(d, k, v) ==
  IF HasKey(d, k)
  THEN PyDict([i \in 1..Len(d.d) |-> IF d.d[i].k = k THEN Item(k, v) ELSE d.d[i]])
  ELSE PyDict(Append(d.d, Item(k, v)))

(***************************************************************************)
(* str methods.                                                            *)
(***************************************************************************)
SetMin(S) == CHOOSE m \in S : \A n \in S : m <= n

\* s[a:b] for 0 <= a, b <= len(s)
Slice(s, a, b) == IF b <= a THEN "" ELSE SubSeq(s, a + 1, b)

\* s.find(sub, start): the lowest 0-based index at or after start, or -1
Find(s, sub, start) ==
  LET hits == {i \in start..(Len(s) - Len(sub)) : Slice(s, i, i + Len(sub)) = sub}
  IN IF hits = {} THEN -1 ELSE SetMin(hits)

\* sub in s
In(sub, s) == Find(s, sub, 0) # -1

\* s.split(sep)
RECURSIVE Split(_, _)
Split(s, sep) ==
  LET i == Find(s, sep, 0)
  IN IF i = -1 THEN <<s>>
     ELSE <<Slice(s, 0, i)>> \o Split(Slice(s, i + Len(sep), Len(s)), sep)

\* s.replace(old, new), old non-empty
RECURSIVE Replace(_, _, _)
Replace(s, old, new) ==
  LET i == Find(s, old, 0)
  IN IF i = -1 THEN s
     ELSE Slice(s, 0, i) \o new \o Replace(Slice(s, i + Len(old), Len(s)), old, new)

\* sep.join(parts)
RECURSIVE Join(_, _)
Join(sep, parts) ==
  IF parts = <<>> THEN ""
  ELSE IF Len(parts) = 1 THEN parts[1]
  ELSE parts[1] \o sep \o Join(sep, Tail(parts))

Whitespace == {" ", "\n", "\t"}

\* s.strip()
Strip(s) ==
  LET keep == {i \in 1..Len(s) : SubSeq(s, i, i) \notin Whitespace}
  IN IF keep = {} THEN ""
     ELSE SubSeq(s, SetMin(keep), CHOOSE m \in keep : \A n \in keep : n <= m)

LowerCase == "abcdefghijklmnopqrstuvwxyz"
UpperCase == "ABCDEFGHIJKLMNOPQRSTUVWXYZ"

\* s.upper() (ASCII letters)
RECURSIVE Upper(_)
Upper(s) ==
  IF s = "" THEN ""
  ELSE LET c == SubSeq(s, 1, 1)
           i == Find(LowerCase, c, 0)
       IN (IF i = -1 THEN c ELSE SubSeq(UpperCase, i + 1, i + 1))
          \o Upper(Slice(s, 1, Len(s)))

(***************************************************************************)
(* The parsed document.  An element that a lookup does not find is NoTag   *)
(* (BeautifulSoup's find returns None); a found element is a record with   *)
(* e = TRUE and the parts the code reads from it.                          *)
(*   html.links       link elements in document order: [rel, href]         *)
(*   html.scripts     script elements in document order: [string]          *)
(*   html.details     div.details-property: [one, two]                     *)
(*     one  div.details-property-feature-one: [features], features the     *)
(*          inner div.details-property_features: [li]                      *)
(*     two  div.details-property-feature-two: [lists], the inner           *)
(*          div.details-property_features in order, each a sequence of li  *)
(*   li               [text, spans], span = [text, class]                  *)
(***************************************************************************)
NoTag == [e |-> FALSE]

\* a link element; rel is the list of its rel tokens, href its attribute or None
Link(rel, href) == [rel |-> rel, href |-> href]

\* a script element; string is tag.string: None or the text
Script(string) == [string |-> string]

\* a list item with its own text and its span children
Li(text, spans) == [text |-> text, spans |-> spans]

\* a span with its text and its class attribute (None or a list of tokens)
Span(text, class) == [text |-> text, class |-> class]

\* li.text: every string under the element, in document order
LiText(li) == li.text \o Join("", [i \in 1..Len(li.spans) |-> li.spans[i].text])

\* [li.text.strip() for li in lis]
StrippedTexts(lis) == [i \in 1..Len(lis) |-> PyStr(Strip(LiText(lis[i])))]

(***************************************************************************)
(* 4.1 canonical URL: soup.find('link', rel='canonical') and the href test *)
(***************************************************************************)
\* soup.find('link', rel='canonical'): the first link with a rel token canonical
FindCanonical(links) ==
  LET hits == {i \in 1..Len(links) :
                 \E j \in 1..Len(links[i].rel) : links[i].rel[j] = "canonical"}
  IN IF hits = {} THEN NoTag
     ELSE [e |-> TRUE, href |-> links[SetMin(hits)].href]

\* CanonicalOr without the href test: any canonical link overrides the URL
CanonicalOrAnyHref(links, url) ==
  LET canonical_link_tag == FindCanonical(links)
  IN IF canonical_link_tag.e THEN canonical_link_tag.href ELSE url

\* lines 30-32 and 173-175: the URL both extractors report
CanonicalOr(links, url) ==
  LET canonical_link_tag == FindCanonical(links)
  IN IF canonical_link_tag.e /\ Truthy(canonical_link_tag.href)
     THEN canonical_link_tag.href
     ELSE url

(***************************************************************************)
(* 4.4 energy rating decoder (lines 120-125 and 324-329).                  *)
(***************************************************************************)
\* the rating of a span's class attribute
DecodeRating(rating_class) ==
  IF Truthy(rating_class)
  THEN LET rating_parts == Split(rating_class.l[1], "-")
       IN IF Len(rating_parts) >= 3 THEN PyStr(Upper(rating_parts[3])) ELSE PyNone
  ELSE PyNone

\* one li of the energy list: which rating it sets ("" for none) and the value
EnergyItem(li) ==
  IF Len(li.spans) = 2
  THEN LET label == Strip(li.spans[1].text)
           rating == DecodeRating(li.spans[2].class)
       IN IF In("Consumo", label) THEN [field |-> "consumption", rating |-> rating]
          ELSE IF In("Emisiones", label) THEN [field |-> "emissions", rating |-> rating]
          ELSE [field |-> "", rating |-> rating]
  ELSE [field |-> "", rating |-> PyNone]

(***************************************************************************)
(* 4.2 steps 1-2: the script, the text after `var utag_data = ` up to the  *)
(* next `;`, and json.loads of it.                                         *)
(***************************************************************************)

\* SelectScript keeping the last marked script instead of stopping at the first
SelectLastScript(scripts) ==
  LET css == {i \in 1..Len(scripts) :
                /\ Truthy(scripts[i].string)
                /\ In("var utag_data", scripts[i].string.s)}
      last == CHOOSE m \in css : \A n \in css : n <= m
  IN IF css # {} THEN [e |-> TRUE, i |-> last, string |-> scripts[last].string]
     ELSE NoTag

\* lines 35-46: the script element the extractor reads, or NoTag
SelectScript(scripts) ==
  LET css == {i \in 1..Len(scripts) :
                /\ Truthy(scripts[i].string)
                /\ In("var utag_data", scripts[i].string.s)}
      fallback == {i \in 1..Len(scripts) :
                     /\ scripts[i].string.t = "str"
                     /\ In("utag_data", scripts[i].string.s)}
  IN IF css # {} THEN [e |-> TRUE, i |-> SetMin(css), string |-> scripts[SetMin(css)].string]
     ELSE IF fallback # {}
          THEN [e |-> TRUE, i |-> SetMin(fallback), string |-> scripts[SetMin(fallback)].string]
          ELSE NoTag

\* lines 48-57: the text handed to json.loads, when the code gets that far
UtagSlice(utag_data_script_tag) ==
  IF utag_data_script_tag.e /\ Truthy(utag_data_script_tag.string)
  THEN LET script_content == utag_data_script_tag.string.s
           found == Find(script_content, "var utag_data = ", 0)
           start_index == found + Len("var utag_data = ")
           end_index == Find(script_content, ";", start_index)
       IN IF found # -1 /\ end_index # -1
          THEN [e |-> TRUE, s |-> Slice(script_content, start_index, end_index)]
          ELSE NoTag
  ELSE NoTag

\* the text of a dict key in JSON: json.dumps writes every key as a string
KeyText(k) ==
  CASE k.t = "str" -> k.s
    [] k.t = "int" -> ToString(k.n)
    [] k.t = "bool" -> IF k.b THEN "true" ELSE "false"
    [] k.t = "None" -> "null"

\* json.dumps(v) of a JSON value whose strings need no escape
RECURSIVE Dumps(_)
Dumps(v) ==
  CASE v.t = "None" -> "null"
    [] v.t = "int" -> ToString(v.n)
    [] v.t = "bool" -> IF v.b THEN "true" ELSE "false"
    [] v.t = "str" -> "\"" \o v.s \o "\""
    [] v.t = "list" -> "[" \o Join(", ", [i \in 1..Len(v.l) |-> Dumps(v.l[i])]) \o "]"
    [] v.t = "dict" ->
         "{" \o Join(", ", [i \in 1..Len(v.d) |->
                              "\"" \o KeyText(v.d[i].k) \o "\": " \o Dumps(v.d[i].v)])
             \o "}"

(***************************************************************************)
(* 4.2 step 3: the groups filled from the parsed utag_data (lines 60-92).  *)
(* Each operator returns Ok(property_info) or the exception the Python     *)
(* operation raises on that shape of value.                                *)
(***************************************************************************)
\* lines 61-62: {k: characteristics[k] for k in characteristics}
RECURSIVE CopyByIteration(_, _, _)
CopyByIteration(c, i, acc) ==
  CASE c.t = "dict" -> Ok(PyDict(c.d))
    [] c.t \in {"None", "int", "bool"} -> Raise("TypeError")
    [] c.t = "str" -> IF c.s = "" THEN Ok(EmptyDict) ELSE Raise("TypeError")
    [] c.t = "list" ->
         IF i > Len(c.l) THEN Ok(acc)
         ELSE LET k == c.l[i]
              IN IF k.t # "int" THEN Raise("TypeError")
                 ELSE IF k.n >= Len(c.l) \/ k.n < -Len(c.l) THEN Raise("IndexError")
                 ELSE CopyByIteration(c, i + 1,
                        DictSet(acc, k, c.l[IF k.n >= 0 THEN k.n + 1 ELSE Len(c.l) + k.n + 1]))

\* lines 60-62: the characteristics group
Characteristics(utag_data, info) ==
  LET ad == DictGet(utag_data, PyStr("ad"))
  IN IF IsDict(ad) /\ HasKey(ad, PyStr("characteristics"))
     THEN LET copy == CopyByIteration(DictGet(ad, PyStr("characteristics")), 1, EmptyDict)
          IN IF copy.exc # "" THEN copy
             ELSE Ok([info EXCEPT !.characteristics = copy.v])
     ELSE Ok(info)

\* LocationPart taking split('-')[0], the first segment
LocationPartFirstSegment(id) ==
  IF Truthy(id)
  THEN IF id.t = "str" THEN Ok(<<Split(id.s, "-")[1]>>) ELSE Raise("AttributeError")
  ELSE Ok(<<>>)

\* lines 76-79: one id's contribution to location_parts
LocationPart(id) ==
  IF Truthy(id)
  THEN IF id.t = "str"
       THEN LET segs == Split(id.s, "-") IN Ok(<<segs[Len(segs)]>>)
       ELSE Raise("AttributeError")
  ELSE Ok(<<>>)

\* lines 72-80: ad_info['location'] for an address mapping
Location(address_data) ==
  IF Get(address_data, "locationLevel") = PyStr("6")
  THEN LET m == LocationPart(Get(address_data, "municipalityId"))
       IN IF m.exc # "" THEN m
          ELSE LET p == LocationPart(Get(address_data, "provinceId"))
               IN IF p.exc # "" THEN p
                  ELSE LET location_parts == m.v \o p.v
                       IN Ok(IF location_parts # <<>>
                             THEN PyStr(Join(", ", location_parts))
                             ELSE PyNone)
  ELSE Ok(PyNone)

\* lines 82-92: copy one sub-mapping of ad when it is a mapping
CopyMapping(ad_info, ad_data, key) ==
  IF HasKey(ad_data, PyStr(key)) /\ IsDict(DictGet(ad_data, PyStr(key)))
  THEN DictSet(ad_info, PyStr(key), PyDict(DictGet(ad_data, PyStr(key)).d))
  ELSE ad_info

\* lines 66-70: the fixed scalar fields
FixedFields == <<"id", "operation", "typology", "price", "builtType">>

\* CopyFixed with ad_data.get(key, ''): a missing field becomes the empty string
RECURSIVE CopyFixedEmptyDefault(_, _, _)
CopyFixedEmptyDefault(ad_info, ad_data, i) ==
  IF i > Len(FixedFields) THEN ad_info
  ELSE CopyFixedEmptyDefault(
         DictSet(ad_info, PyStr(FixedFields[i]),
                 IF HasKey(ad_data, PyStr(FixedFields[i]))
                 THEN DictGet(ad_data, PyStr(FixedFields[i]))
                 ELSE PyStr("")),
         ad_data, i + 1)

RECURSIVE CopyFixed(_, _, _)
CopyFixed(ad_info, ad_data, i) ==
  IF i > Len(FixedFields) THEN ad_info
  ELSE CopyFixed(DictSet(ad_info, PyStr(FixedFields[i]), Get(ad_data, FixedFields[i])),
                 ad_data, i + 1)

\* lines 64-92: the ad_info group
AdInfo(utag_data, info) ==
  LET ad_data == DictGet(utag_data, PyStr("ad"))
  IN IF ~IsDict(ad_data) THEN Ok(info)
     ELSE LET fixed == CopyFixed(info.ad_info, ad_data, 1)
              hasAddress == /\ HasKey(ad_data, PyStr("address"))
                            /\ IsDict(DictGet(ad_data, PyStr("address")))
              loc == IF hasAddress THEN Location(DictGet(ad_data, PyStr("address")))
                     ELSE Ok(PyNone)
          IN IF loc.exc # "" THEN loc
             ELSE LET located == IF hasAddress
                                 THEN DictSet(fixed, PyStr("location"), loc.v)
                                 ELSE fixed
                      copied == CopyMapping(CopyMapping(CopyMapping(CopyMapping(
                                  located, ad_data, "condition"), ad_data, "media"),
                                  ad_data, "owner"), ad_data, "agency")
                  IN Ok([info EXCEPT !.ad_info = copied])

\* line 60: `"ad" in utag_data`, by the type of utag_data
AdIn(utag_data) ==
  CASE utag_data.t = "dict" -> Ok(HasKey(utag_data, PyStr("ad")))
    [] utag_data.t = "str" -> Ok(In("ad", utag_data.s))
    [] utag_data.t = "list" ->
         Ok(\E i \in 1..Len(utag_data.l) : utag_data.l[i] = PyStr("ad"))
    [] OTHER -> Raise("TypeError")

\* lines 60-92: everything done with the parsed utag_data
FillFromUtag(utag_data, info) ==
  LET has == AdIn(utag_data)
  IN IF has.exc # "" THEN has
     ELSE IF ~has.v THEN Ok(info)
     ELSE IF utag_data.t # "dict" THEN Raise("TypeError")
     ELSE LET c == Characteristics(utag_data, info)
          IN IF c.exc # "" THEN c ELSE AdInfo(utag_data, c.v)

(***************************************************************************)
(* 4.2 step 4: the details harvest of the full extractor (lines 98-129).   *)
(***************************************************************************)
\* lines 116-129: the energy_certificate dict after the items of the list
RECURSIVE EnergyCertificate(_, _, _)
EnergyCertificate(lis, i, cert) ==
  IF i > Len(lis) THEN cert
  ELSE LET r == EnergyItem(lis[i])
       IN EnergyCertificate(lis, i + 1,
            IF r.field = "consumption"
            THEN DictSet(cert, PyStr("consumption_rating"), r.rating)
            ELSE IF r.field = "emissions"
            THEN DictSet(cert, PyStr("emissions_rating"), r.rating)
            ELSE cert)

\* lines 101-104: basic_features; find(...) of the inner div may be None
FullBasicFeatures(details, d) ==
  IF details.one.e
  THEN IF details.one.features.e
       THEN Ok([d EXCEPT !.basic_features = PyList(StrippedTexts(details.one.features.li))])
       ELSE Raise("AttributeError")
  ELSE Ok(d)

\* lines 107-129: equipment and energy_certificate
FullEquipment(details, d) ==
  IF details.two.e
  THEN LET equipment_lists == details.two.lists
           d1 == IF Len(equipment_lists) > 0
                 THEN [d EXCEPT !.equipment = PyList(StrippedTexts(equipment_lists[1]))]
                 ELSE d
       IN IF Len(equipment_lists) > 1
          THEN [d1 EXCEPT !.energy_certificate =
                              EnergyCertificate(equipment_lists[2], 1, d.energy_certificate)]
          ELSE d1
  ELSE d

\* lines 98-129
FullDetails(details, info) ==
  IF details.e
  THEN LET b == FullBasicFeatures(details, info.details)
       IN IF b.exc # "" THEN b
          ELSE Ok([info EXCEPT !.details = FullEquipment(details, b.v)])
  ELSE Ok(info)

\* lines 22-27: the record before anything is extracted
EmptyDetails ==
  [basic_features |-> PyList(<<>>), equipment |-> PyList(<<>>),
   energy_certificate |-> EmptyDict]

EmptyInfo(url) ==
  [characteristics |-> EmptyDict, ad_info |-> EmptyDict,
   details |-> EmptyDetails, source_url |-> url]

(***************************************************************************)
(* 4.5 flatten_property_info (lines 132-154).                              *)
(***************************************************************************)
\* str(v) of a key or index inside an f-string
Format(v) ==
  CASE v.t = "str" -> v.s
    [] v.t = "int" -> ToString(v.n)
    [] v.t = "bool" -> IF v.b THEN "True" ELSE "False"
    [] v.t = "None" -> "None"

\* the grouped record as the dict the function iterates (lines 22-27)
InfoDict(info) ==
  PyDict(<<Item(PyStr("characteristics"), info.characteristics),
           Item(PyStr("ad_info"), info.ad_info),
           Item(PyStr("details"),
                PyDict(<<Item(PyStr("basic_features"), info.details.basic_features),
                         Item(PyStr("equipment"), info.details.equipment),
                         Item(PyStr("energy_certificate"),
                              info.details.energy_certificate)>>)),
           Item(PyStr("source_url"), info.source_url)>>)

\* lines 142-143 and 150-151: flattened_info[f'{prefix}_{i}'] = item
RECURSIVE FlattenList(_, _, _, _)
FlattenList(flat, prefix, l, i) ==
  IF i > Len(l) THEN flat
  ELSE FlattenList(DictSet(flat, PyStr(prefix \o "_" \o ToString(i - 1)), l[i]),
                   prefix, l, i + 1)

\* lines 145-146: flattened_info[f'{prefix}_{nested_key}'] = nested_value
RECURSIVE FlattenNested(_, _, _, _)
FlattenNested(flat, prefix, d, i) ==
  IF i > Len(d) THEN flat
  ELSE FlattenNested(DictSet(flat, PyStr(prefix \o "_" \o Format(d[i].k)), d[i].v),
                     prefix, d, i + 1)

\* lines 140-148: the members of one group
RECURSIVE FlattenGroup(_, _, _, _)
FlattenGroup(flat, section, d, i) ==
  IF i > Len(d) THEN flat
  ELSE LET key == section \o "_" \o Format(d[i].k)
           value == d[i].v
       IN FlattenGroup(
            IF IsList(value) THEN FlattenList(flat, key, value.l, 1)
            ELSE IF IsDict(value) THEN FlattenNested(flat, key, value.d, 1)
            ELSE DictSet(flat, PyStr(key), value),
            section, d, i + 1)

\* lines 138-153: the sections of the record
RECURSIVE FlattenSections(_, _, _)
FlattenSections(flat, d, i) ==
  IF i > Len(d) THEN flat
  ELSE LET section == Format(d[i].k)
           data == d[i].v
       IN FlattenSections(
            IF IsDict(data) THEN FlattenGroup(flat, section, data.d, 1)
            ELSE IF IsList(data) THEN FlattenList(flat, section, data.l, 1)
            ELSE DictSet(flat, PyStr(section), data),
            d, i + 1)

flatten_property_info(info) == FlattenSections(EmptyDict, info.d, 1)

(***************************************************************************)
(* 4.3 extract_detailed_property_features (lines 170-335).                 *)
(*   html.price        span.info-data-price: [text]                        *)
(*   html.location     span.main-info__title-minor: [text]                 *)
(*   html.date_update  section.date-update-block: [p], p = [text]          *)
(*   html.advertiser   div.advertiser-name-container: [link], link = [text]*)
(*   html.particular   span.particular: [contents], a child = [str, text]  *)
(*   html.info_features div.info-features: [span], span = [text]           *)
(***************************************************************************)
\* Defaults with the rooms count starting at "0" instead of None
DefaultsRoomsZero(url) ==
  [source_url |-> url, property_type |-> PyNone, floors |-> PyNone,
   size_built_sqm |-> PyNone, size_useful_sqm |-> PyNone, rooms |-> PyStr("0"),
   bathrooms |-> PyNone, plot_size_sqm |-> PyNone, terrace |-> PyStr("No"),
   balcony |-> PyStr("No"), parking |-> PyStr("No"), condition |-> PyNone,
   built_in_wardrobes |-> PyStr("No"), storage_room |-> PyStr("No"),
   orientation |-> PyNone, built_year |-> PyNone, heating_type |-> PyNone,
   garden |-> PyStr("No"), swimming_pool |-> PyStr("No"),
   energy_consumption_rating |-> PyNone, energy_emissions_rating |-> PyNone,
   price |-> PyNone, location |-> PyNone, ad_update_date |-> PyNone,
   advertiser_name |-> PyNone]

\* lines 177-203
Defaults(url) ==
  [source_url |-> url, property_type |-> PyNone, floors |-> PyNone,
   size_built_sqm |-> PyNone, size_useful_sqm |-> PyNone, rooms |-> PyNone,
   bathrooms |-> PyNone, plot_size_sqm |-> PyNone, terrace |-> PyStr("No"),
   balcony |-> PyStr("No"), parking |-> PyStr("No"), condition |-> PyNone,
   built_in_wardrobes |-> PyStr("No"), storage_room |-> PyStr("No"),
   orientation |-> PyNone, built_year |-> PyNone, heating_type |-> PyNone,
   garden |-> PyStr("No"), swimming_pool |-> PyStr("No"),
   energy_consumption_rating |-> PyNone, energy_emissions_rating |-> PyNone,
   price |-> PyNone, location |-> PyNone, ad_update_date |-> PyNone,
   advertiser_name |-> PyNone]

\* .replace('.','').replace(',','.'): the numeric normalization
Normalize(s) == Replace(Replace(s, ".", ""), ",", ".")

\* lines 236-240: the direct text of span.particular
ParticularName(contents) ==
  LET strs == SelectSeq(contents, LAMBDA child : child.str)
  IN Strip(Join(" ", [i \in 1..Len(strs) |-> Strip(strs[i].text)]))

\* AdvertiserName trying span.particular whenever the container gave no link
AdvertiserNameFallsBack(doc, pf) ==
  IF doc.advertiser.e /\ doc.advertiser.link.e
  THEN [pf EXCEPT !.advertiser_name = PyStr(Strip(doc.advertiser.link.text))]
  ELSE IF doc.particular.e /\ ParticularName(doc.particular.contents) # ""
       THEN [pf EXCEPT !.advertiser_name =
                         PyStr("PARTICULAR: " \o ParticularName(doc.particular.contents))]
       ELSE pf

\* lines 226-242
AdvertiserName(doc, pf) ==
  IF doc.advertiser.e
  THEN IF doc.advertiser.link.e
       THEN [pf EXCEPT !.advertiser_name = PyStr(Strip(doc.advertiser.link.text))]
       ELSE pf
  ELSE IF doc.particular.e /\ ParticularName(doc.particular.contents) # ""
       THEN [pf EXCEPT !.advertiser_name =
                         PyStr("PARTICULAR: " \o ParticularName(doc.particular.contents))]
       ELSE pf

\* lines 245-251
InfoFeaturesSize(doc, pf) ==
  IF doc.info_features.e /\ doc.info_features.span.e
  THEN LET size_text == Strip(doc.info_features.span.text)
       IN IF In("m²", size_text)
          THEN [pf EXCEPT !.size_built_sqm = PyStr(Normalize(Split(size_text, " m²")[1]))]
          ELSE pf
  ELSE pf

\* lines 206-251: everything read before the details container
Header(doc, pf) ==
  LET p1 == IF doc.price.e THEN [pf EXCEPT !.price = PyStr(Strip(doc.price.text))] ELSE pf
      p2 == IF doc.location.e
            THEN [p1 EXCEPT !.location = PyStr(Strip(doc.location.text))] ELSE p1
      p3 == IF doc.date_update.e /\ doc.date_update.p.e
            THEN [p2 EXCEPT !.ad_update_date = PyStr(Strip(doc.date_update.p.text))] ELSE p2
  IN InfoFeaturesSize(doc, AdvertiserName(doc, p3))

\* lines 270-275: the parts of a combined size item
RECURSIVE SizeParts(_, _, _)
SizeParts(parts, i, pf) ==
  IF i > Len(parts) THEN pf
  ELSE LET part == parts[i]
       IN SizeParts(parts, i + 1,
            IF In("m² útiles", part)
            THEN [pf EXCEPT !.size_useful_sqm =
                    PyStr(Normalize(Strip(Replace(Split(part, " m²")[1], " m² útiles", ""))))]
            ELSE IF In("m² construidos", part)
            THEN [pf EXCEPT !.size_built_sqm =
                    PyStr(Normalize(Strip(Replace(Split(part, " m²")[1], " m² construidos", ""))))]
            ELSE pf)

\* lines 263-303: the number of the first branch of the if/elif chain whose
\* condition the text meets (1..18, in the order of the code), 0 if none
MatchedRule(text) ==
  IF In("Casa o chalet independiente", text) THEN 1
  ELSE IF In("planta", text) /\ ~In("plantas", text) THEN 2
  ELSE IF In("plantas", text) THEN 3
  ELSE IF In("m² construidos", text) /\ In("m² útiles", text) THEN 4
  ELSE IF In("habitaciones", text) THEN 5
  ELSE IF In("baño", text) /\ ~In("baños", text) THEN 6
  ELSE IF In("baños", text) THEN 7
  ELSE IF In("Parcela de", text) /\ In("m²", text) THEN 8
  ELSE IF In("Terraza", text) THEN 9
  ELSE IF In("balcón", text) \/ In("Balcón", text) THEN 10
  ELSE IF In("garaje", text) THEN 11
  ELSE IF In("Segunda mano", text) THEN 12
  ELSE IF In("Armarios empotrados", text) THEN 13
  ELSE IF In("Trastero", text) THEN 14
  ELSE IF In("Orientación", text) THEN 15
  ELSE IF In("Construido en", text) THEN 16
  ELSE IF In("No dispone de calefacción", text) THEN 17
  ELSE IF In("Calefacción individual", text) THEN 18
  ELSE 0

\* BasicFeature assigning terrace from every item: 'Yes' if it matches, else 'No'
BasicFeatureAssignsFlag(text, pf) ==
  Ok([pf EXCEPT !.terrace = IF MatchedRule(text) = 9 THEN PyStr("Yes") ELSE PyStr("No")])

\* BasicFeature with `if` in place of `elif` for the presence-only keywords:
\* every keyword the item contains sets its flag
BasicFeatureFallThrough(text, pf) ==
  Ok([pf EXCEPT
        !.terrace = IF In("Terraza", text) THEN PyStr("Yes") ELSE @,
        !.balcony = IF In("balcón", text) \/ In("Balcón", text) THEN PyStr("Yes") ELSE @,
        !.parking = IF In("garaje", text) THEN PyStr("Yes") ELSE @,
        !.built_in_wardrobes = IF In("Armarios empotrados", text) THEN PyStr("Yes") ELSE @,
        !.storage_room = IF In("Trastero", text) THEN PyStr("Yes") ELSE @])

\* lines 262-303: one basic-feature item applied to property_features
BasicFeature(text, pf) ==
  LET rule == MatchedRule(text)
      words == Split(text, " ")
  IN CASE rule = 1 -> Ok([pf EXCEPT !.property_type = PyStr("Casa o chalet independiente")])
       [] rule \in {2, 3} -> Ok([pf EXCEPT !.floors = PyStr(words[1])])
       [] rule = 4 -> Ok(SizeParts(Split(text, ","), 1, pf))
       [] rule = 5 -> Ok([pf EXCEPT !.rooms = PyStr(words[1])])
       [] rule \in {6, 7} -> Ok([pf EXCEPT !.bathrooms = PyStr(words[1])])
       [] rule = 8 ->
            IF Len(words) < 3 THEN Raise("IndexError")
            ELSE Ok([pf EXCEPT !.plot_size_sqm =
                       PyStr(Normalize(Replace(words[3], "m²", "")))])
       [] rule = 9 -> Ok([pf EXCEPT !.terrace = PyStr("Yes")])
       [] rule = 10 -> Ok([pf EXCEPT !.balcony = PyStr("Yes")])
       [] rule = 11 -> Ok([pf EXCEPT !.parking = PyStr("Yes")])
       [] rule = 12 ->
            Ok([pf EXCEPT !.condition =
                  PyStr(Replace(Replace(text, "Segunda mano/", ""), "/buen estado", ""))])
       [] rule = 13 -> Ok([pf EXCEPT !.built_in_wardrobes = PyStr("Yes")])
       [] rule = 14 -> Ok([pf EXCEPT !.storage_room = PyStr("Yes")])
       [] rule = 15 -> Ok([pf EXCEPT !.orientation = PyStr(Replace(text, "Orientación ", ""))])
       [] rule = 16 -> Ok([pf EXCEPT !.built_year = PyStr(words[Len(words)])])
       [] rule = 17 -> Ok([pf EXCEPT !.heating_type = PyStr("No dispone de calefacción")])
       [] rule = 18 -> Ok([pf EXCEPT !.heating_type = PyStr("Calefacción individual")])
       [] rule = 0 -> Ok(pf)

\* lines 312-316: one equipment item applied to property_features
EquipmentFeature(text, pf) ==
  IF In("Jardín", text) THEN [pf EXCEPT !.garden = PyStr("Yes")]
  ELSE IF In("Piscina", text) THEN [pf EXCEPT !.swimming_pool = PyStr("Yes")]
  ELSE pf

\* lines 320-333: one energy item applied to property_features
EnergyFeature(li, pf) ==
  LET r == EnergyItem(li)
  IN IF r.field = "consumption" THEN [pf EXCEPT !.energy_consumption_rating = r.rating]
     ELSE IF r.field = "emissions" THEN [pf EXCEPT !.energy_emissions_rating = r.rating]
     ELSE pf

(***************************************************************************)
(* The inputs explored: JSON values for utag_data, and documents.          *)
(***************************************************************************)
\* every sequence over S of length at most n
SeqsUpTo(S, n) == UNION {[1..k -> S] : k \in 0..n}

\* a member left out of a JSON object
Absent == [t |-> "absent"]

\* the JSON object with the given <<key, value>> members, Absent ones left out
Obj(pairs) ==
  PyDict(SelectSeq([i \in 1..Len(pairs) |-> Item(PyStr(pairs[i][1]), pairs[i][2])],
                   LAMBDA it : it.v # Absent))

\* values of address.municipalityId and address.provinceId
IdValues ==
  {Absent, PyNone, PyStr(""), PyStr("28"), PyStr("0-EU-ES-28"), PyStr("0-EU-ES-28-"),
   PyInt(7), PyInt(0)}

\* values of ad.address
AddressValues ==
  {PyStr("Madrid")} \cup
  {Obj(<<<<"locationLevel", l>>, <<"municipalityId", m>>, <<"provinceId", p>>>>) :
     l \in {Absent, PyStr("6"), PyStr("5"), PyInt(6)}, m \in IdValues, p \in IdValues}

\* ad mappings that vary the fixed scalar fields
AdScalars ==
  {Obj(<<<<"id", i>>, <<"operation", o>>, <<"typology", ty>>, <<"price", pr>>,
         <<"builtType", b>>>>) :
     i \in {Absent, PyInt(12345), PyNone}, o \in {Absent, PyStr("sale")},
     ty \in {Absent, PyStr("chalet")}, pr \in {Absent, PyInt(250000), PyInt(0)},
     b \in {Absent, PyStr("")}}

\* ad mappings that vary the address
AdAddresses == {Obj(<<<<"id", PyInt(12345)>>, <<"address", a>>>>) : a \in AddressValues}

\* ad mappings that vary condition, media, owner and agency
AdMappings ==
  {Obj(<<<<"condition", c>>, <<"media", m>>, <<"owner", o>>, <<"agency", g>>>>) :
     c \in {Absent, PyStr("good"), Obj(<<<<"isNewDevelopment", PyBool(FALSE)>>>>)},
     m \in {Absent, PyList(<<>>), Obj(<<<<"photoNumber", PyInt(12)>>>>)},
     o \in {Absent, Obj(<<<<"type", PyStr("1")>>>>)},
     g \in {Absent, PyNone, Obj(<<<<"name", PyStr("x")>>>>)}}

\* keys and values of a characteristics mapping
CharKeys == {"a", "a_b", "a_0"}
CharValues ==
  {PyInt(1), PyList(<<>>), PyList(<<PyStr("x")>>), Obj(<<<<"b", PyInt(2)>>>>),
   Obj(<<<<"0", PyStr("x")>>>>), Obj(<<<<"b", Obj(<<<<"c", PyInt(1)>>>>)>>>>)}

\* characteristics mappings: up to MaxKeys distinct keys, in any order
CharMappings ==
  UNION {{PyDict([i \in 1..Len(ks) |-> Item(PyStr(ks[i]), vs[i])]) :
            vs \in [1..Len(ks) -> CharValues]} :
         ks \in {q \in SeqsUpTo(CharKeys, MaxKeys) :
                   \A i, j \in 1..Len(q) : i # j => q[i] # q[j]}}

\* values of ad.characteristics that are not mappings
CharOthers ==
  {PyNone, PyInt(3), PyStr(""), PyStr("ab"), PyList(<<>>), PyList(<<PyInt(0)>>),
   PyList(<<PyInt(1)>>), PyList(<<PyStr("a")>>)}

\* ad mappings that vary the characteristics
AdCharacteristics ==
  {Obj(<<<<"characteristics", c>>, <<"id", PyInt(12345)>>>>) :
     c \in CharMappings \cup CharOthers}

\* values of utag_data
UtagValues ==
  {PyNone, PyInt(1), PyBool(TRUE), PyStr("ad"), PyStr("x"), PyList(<<>>),
   PyList(<<PyStr("ad")>>), EmptyDict, Obj(<<<<"page", PyStr("detail")>>>>)}
  \cup {Obj(<<<<"ad", a>>>>) : a \in {PyNone, PyInt(1), PyStr("s"), PyList(<<>>)}}
  \cup {Obj(<<<<"ad", a>>>>) :
          a \in AdScalars \cup AdAddresses \cup AdMappings \cup AdCharacteristics}

\* every utag_data value with its JSON text and the script assigning it
JsonTexts ==
  {[v |-> v, s |-> Dumps(v),
    script |-> Script(PyStr("var utag_data = " \o Dumps(v) \o ";"))] : v \in UtagValues}

\* json.loads(s): the value whose JSON text s is, or JSONDecodeError
json_loads(s) ==
  IF \E j \in JsonTexts : j.s = s
  THEN Ok((CHOOSE j \in JsonTexts : j.s = s).v)
  ELSE Raise("JSONDecodeError")

\* a found element with the given text
Text(s) == [e |-> TRUE, text |-> s]

\* the document in which no lookup finds anything
EmptyDoc ==
  [links |-> <<>>, scripts |-> <<>>, details |-> NoTag, price |-> NoTag,
   location |-> NoTag, date_update |-> NoTag, advertiser |-> NoTag,
   particular |-> NoTag, info_features |-> NoTag]

\* link elements
LinkKinds ==
  {Link(<<"canonical">>, PyStr("https://c/1")), Link(<<"canonical">>, PyStr("https://c/2")),
   Link(<<"canonical">>, PyNone), Link(<<"canonical">>, PyStr("")),
   Link(<<"stylesheet">>, PyStr("https://s.css")),
   Link(<<"nofollow", "canonical">>, PyStr("https://c/3")), Link(<<>>, PyStr("https://n"))}

LinkDocs == {[EmptyDoc EXCEPT !.links = l] : l \in SeqsUpTo(LinkKinds, MaxLinks)}

\* the caller's page_url
Urls == {PyNone, PyStr("https://p")}

\* a script assigning the given text to utag_data, followed by term
ScriptOf(body, term) == Script(PyStr("var utag_data = " \o body \o term))

GoodUtag ==
  Obj(<<<<"ad", Obj(<<<<"id", PyInt(12345)>>,
                      <<"address", Obj(<<<<"locationLevel", PyStr("6")>>,
                                         <<"municipalityId", PyStr("0-EU-ES-28")>>,
                                         <<"provinceId", PyStr("28")>>>>)>>>>)>>>>)

GoodScript == ScriptOf(Dumps(GoodUtag), ";")

\* texts that are not JSON
MalformedTexts == {"{bad", "", "{'ad': 1}", "{\"ad\": {\"id\": \"a;b\"}}", "{\"ad\": "}

MalformedScripts == {<<ScriptOf(b, ";")>> : b \in MalformedTexts}

\* one script per utag_data value
ValueScripts == {<<j.script>> : j \in JsonTexts}

\* other arrangements of the script elements
OddScripts ==
  {<<>>, <<Script(PyNone)>>, <<Script(PyStr(""))>>, <<Script(PyStr("var x = 1;"))>>,
   <<ScriptOf(Dumps(GoodUtag), "")>>,
   <<ScriptOf(Dumps(GoodUtag), "; var y = 2;")>>,
   <<Script(PyStr("var a = 1; var utag_data = " \o Dumps(GoodUtag) \o ";"))>>,
   <<Script(PyStr("var utag_data=" \o Dumps(GoodUtag) \o ";"))>>,
   <<Script(PyStr("window.utag_data = " \o Dumps(GoodUtag) \o ";"))>>,
   <<Script(PyStr("var x = 1;")), GoodScript>>,
   <<Script(PyNone), GoodScript>>,
   <<ScriptOf("{bad", ";"), GoodScript>>,
   <<Script(PyStr("var utag_data;")), GoodScript>>,
   <<Script(PyStr("window.utag_data = 1;")), GoodScript>>,
   <<GoodScript, ScriptOf("{bad", ";")>>}

ScriptDocs ==
  {[EmptyDoc EXCEPT !.scripts = sc] : sc \in ValueScripts \cup MalformedScripts \cup OddScripts}

\* texts of basic-feature items
BasicTexts ==
  {"Casa o chalet independiente", "1 planta", "2 plantas",
   "120 m² construidos, 100 m² útiles", "1.234,5 m² construidos, 1.100 m² útiles",
   "85 m² construidos", "3 habitaciones", "1 baño", "2 baños",
   "Parcela de 500 m²", "Parcela de 1.500 m²", "Parcela de700m²",
   " Terraza \n", "Terraza y balcón", "Balcón", "Plaza de garaje incluida",
   "Trastero y garaje", "Segunda mano/buen estado", "Armarios empotrados", "Trastero",
   "Orientación sur", "Construido en 1990", "No dispone de calefacción",
   "Calefacción individual: Gas natural", "Ascensor",
   "Gran Parcela de 500 m²", "Segunda mano/buen estado con Trastero"}

BasicLis == {Li(t, <<>>) : t \in BasicTexts}

\* the texts combined into longer lists: items that overwrite one another,
\* items that match several keywords, and items that match none
CombinedTexts ==
  {"1 planta", "2 plantas", "120 m² construidos, 100 m² útiles", "85 m² construidos",
   "2 baños", "Parcela de700m²", " Terraza \n", "Terraza y balcón", "Balcón",
   "Plaza de garaje incluida", "Trastero y garaje", "Ascensor"}

CombinedLis == {Li(t, <<>>) : t \in CombinedTexts}

\* texts of equipment items
EquipTexts == {"Jardín", "Piscina", "Piscina y Jardín", "Aire acondicionado"}

EquipLis == {Li(t, <<>>) : t \in EquipTexts}

\* class attributes of a rating span
ClassValues ==
  {PyNone, PyList(<<>>), PyList(<<"icon-energy-c-e">>), PyList(<<"icon-energy-c-c">>),
   PyList(<<"icon-energy">>), PyList(<<"icon-energy-b">>),
   PyList(<<"rating", "icon-energy-c-e">>)}

\* items of the energy-certificate list
EnergyLis ==
  {Li("", <<Span(l, PyNone), Span("", c)>>) :
     l \in {" Consumo: ", "Emisiones:"}, c \in ClassValues}
  \cup {Li("", <<Span("Otro", PyNone), Span("", PyList(<<"icon-energy-c-e">>))>>),
        Li("Consumo:", <<Span("", PyList(<<"icon-energy-c-e">>))>>),
        Li("", <<Span("Consumo:", PyNone), Span("", PyList(<<"icon-energy-c-e">>)),
                 Span("kWh", PyNone)>>)}

\* a details container with the two sections given
Details(one, two) == [e |-> TRUE, one |-> one, two |-> two]

\* the basic-features section with its inner list div
FeatureOne(lis) == [e |-> TRUE, features |-> [e |-> TRUE, li |-> lis]]

\* the basic-features section without the inner list div
FeatureOneBare == [e |-> TRUE, features |-> NoTag]

\* the equipment section with its inner list divs
FeatureTwo(lists) == [e |-> TRUE, lists |-> lists]

SomeEquipment == <<Li("Jardín", <<>>)>>

SomeEnergy ==
  <<Li("", <<Span("Consumo:", PyNone), Span("", PyList(<<"icon-energy-c-e">>))>>),
    Li("", <<Span("Emisiones:", PyNone), Span("", PyList(<<"icon-energy-c-c">>))>>)>>

\* details containers that vary which pieces exist
StructDetails ==
  {NoTag} \cup
  {Details(one, two) :
     one \in {NoTag, FeatureOneBare, FeatureOne(<<>>), FeatureOne(<<Li(" Terraza \n", <<>>)>>)},
     two \in {NoTag, FeatureTwo(<<>>), FeatureTwo(<<SomeEquipment>>),
              FeatureTwo(<<SomeEquipment, SomeEnergy>>), FeatureTwo(<<<<>>, SomeEnergy>>),
              FeatureTwo(<<SomeEquipment, SomeEnergy, SomeEquipment>>)}}

StructDocs ==
  {[EmptyDoc EXCEPT !.details = d, !.scripts = sc] :
     d \in StructDetails, sc \in {<<>>, <<ScriptOf("{bad", ";")>>, <<GoodScript>>}}

\* details containers that vary the items of one list
ItemDetails ==
  {Details(FeatureOne(<<li>>), NoTag) : li \in BasicLis}
  \cup {Details(FeatureOne(lis), NoTag) : lis \in SeqsUpTo(CombinedLis, MaxItems)}
  \cup {Details(NoTag, FeatureTwo(<<lis>>)) : lis \in SeqsUpTo(EquipLis, MaxItems)}
  \cup {Details(NoTag, FeatureTwo(<<SomeEquipment, lis>>)) :
          lis \in SeqsUpTo(EnergyLis, MaxItems)}

ItemDocs == {[EmptyDoc EXCEPT !.details = d] : d \in ItemDetails}

\* documents that vary what precedes the details container
HeaderDocs ==
  {[EmptyDoc EXCEPT !.price = p, !.location = l, !.date_update = d] :
     p \in {NoTag, Text(" 250.000 € ")}, l \in {NoTag, Text("Chamberí, Madrid")},
     d \in {NoTag, [e |-> TRUE, p |-> NoTag],
            [e |-> TRUE, p |-> Text("Anuncio actualizado hace 3 días")]}}
  \cup
  {[EmptyDoc EXCEPT !.advertiser = a, !.particular = p] :
     a \in {NoTag, [e |-> TRUE, link |-> NoTag], [e |-> TRUE, link |-> Text(" Inmo Sol ")],
            [e |-> TRUE, link |-> Text("  ")]},
     p \in {NoTag, [e |-> TRUE, contents |-> <<>>],
            [e |-> TRUE, contents |-> <<[str |-> TRUE, text |-> " Ana "]>>],
            [e |-> TRUE, contents |-> <<[str |-> FALSE, text |-> "Particular"],
                                        [str |-> TRUE, text |-> "  "]>>],
            [e |-> TRUE, contents |-> <<[str |-> TRUE, text |-> "Ana "],
                                        [str |-> FALSE, text |-> "x"],
                                        [str |-> TRUE, text |-> " Ruiz"]>>]}}
  \cup
  {[EmptyDoc EXCEPT !.info_features = f, !.details = d] :
     f \in {NoTag, [e |-> TRUE, span |-> NoTag], [e |-> TRUE, span |-> Text("3 hab.")],
            [e |-> TRUE, span |-> Text(" 1.234,5 m² ")], [e |-> TRUE, span |-> Text("90 m²")]},
     d \in {NoTag, Details(FeatureOne(<<Li("120 m² construidos, 100 m² útiles", <<>>)>>),
                           NoTag)}}

\* the calls explored: the function, the document and the caller's page_url
Calls ==
  {[fn |-> f, html |-> d, page_url |-> u] :
     f \in {"full", "detailed"}, d \in LinkDocs, u \in Urls}
  \cup {[fn |-> "full", html |-> d, page_url |-> PyNone] : d \in ScriptDocs}
  \cup {[fn |-> f, html |-> d, page_url |-> PyNone] :
          f \in {"full", "detailed"}, d \in StructDocs \cup ItemDocs \cup HeaderDocs}

(***************************************************************************)
(* The whole calls, as process_all_data makes them (src/app.py lines       *)
(* 103-107): the same operators as the steps below, composed.              *)
(***************************************************************************)
\* lines 50-95: the ad fields, when the script parsed
UtagFilled(utag_data, info) ==
  IF utag_data.exc = "" THEN FillFromUtag(utag_data.v, info) ELSE Ok(info)

\* lines 34-95: the utag_data script, when one is selected and sliced
UtagStep(slice, info) ==
  IF slice.e THEN UtagFilled(json_loads(slice.s), info) ELSE Ok(info)

\* lines 97-166: the details container, unless the function has raised
DetailsStep(details, filled) ==
  IF filled.exc # "" THEN filled ELSE FullDetails(details, filled.v)

\* extract_full_property_info_css_selector(html_content, page_url)
extract_full_property_info_css_selector(doc, url) ==
  DetailsStep(doc.details,
              UtagStep(UtagSlice(SelectScript(doc.scripts)),
                       EmptyInfo(CanonicalOr(doc.links, url))))

\* lines 261-303: the basic-features loop, BasicRest going on after one item
RECURSIVE BasicLoop(_, _, _), BasicRest(_, _, _)
BasicLoop(lis, i, pf) ==
  IF i > Len(lis) THEN Ok(pf)
  ELSE BasicRest(lis, i, BasicFeature(Strip(LiText(lis[i])), pf))

BasicRest(lis, i, r) == IF r.exc # "" THEN r ELSE BasicLoop(lis, i + 1, r.v)

\* lines 311-316: the equipment loop
RECURSIVE EquipmentLoop(_, _, _)
EquipmentLoop(lis, i, pf) ==
  IF i > Len(lis) THEN pf
  ELSE EquipmentLoop(lis, i + 1, EquipmentFeature(Strip(LiText(lis[i])), pf))

\* lines 320-333: the energy-certificate loop
RECURSIVE EnergyLoop(_, _, _)
EnergyLoop(lis, i, pf) ==
  IF i > Len(lis) THEN pf ELSE EnergyLoop(lis, i + 1, EnergyFeature(lis[i], pf))

\* lines 318-333: the second list of details-property_features-two, if any
EnergyStep(lists, equipped) ==
  IF Len(lists) > 1 THEN EnergyLoop(lists[2], 1, equipped) ELSE equipped

\* lines 305-333: details-property_features-two, after the basic features
FeatureTwoStep(d, basic) ==
  IF basic.exc # "" THEN basic
  ELSE IF ~d.two.e \/ Len(d.two.lists) = 0 THEN basic
  ELSE Ok(EnergyStep(d.two.lists, EquipmentLoop(d.two.lists[1], 1, basic.v)))

\* lines 253-333: the details container
DetailedDetails(d, header) ==
  IF ~d.e THEN Ok(header)
  ELSE IF d.one.e /\ ~d.one.features.e THEN Raise("AttributeError")
  ELSE FeatureTwoStep(d, IF d.one.e THEN BasicLoop(d.one.features.li, 1, header)
                         ELSE Ok(header))

\* extract_detailed_property_features(html_content, page_url)
extract_detailed_property_features(doc, url) ==
  DetailedDetails(doc.details, Header(doc, Defaults(CanonicalOr(doc.links, url))))

\* the keys of the property_features dict, in the order of lines 177-203
FeatureFields ==
  <<"source_url", "property_type", "floors", "size_built_sqm", "size_useful_sqm",
    "rooms", "bathrooms", "plot_size_sqm", "terrace", "balcony", "parking",
    "condition", "built_in_wardrobes", "storage_room", "orientation", "built_year",
    "heating_type", "garden", "swimming_pool", "energy_consumption_rating",
    "energy_emissions_rating", "price", "location", "ad_update_date", "advertiser_name">>

\* property_features as the dict the function returns
FeaturesDict(pf) ==
  PyDict([i \in 1..Len(FeatureFields) |-> Item(PyStr(FeatureFields[i]), pf[FeatureFields[i]])])

(***************************************************************************)
(* pandas.  A DataFrame is its set of column names and the sequence of its *)
(* rows, a row being a function from the columns to cell values; a missing *)
(* cell (None, NaN) is PyNone.                                             *)
(***************************************************************************)
\* pd.DataFrame()
EmptyFrame == [columns |-> {}, rows |-> <<>>]

\* df.empty: no rows or no columns
FrameEmpty(d) == d.columns = {} \/ d.rows = <<>>

\* the keys of a record (a dict with str keys)
Keys(record) == {record.d[i].k.s : i \in 1..Len(record.d)}

\* pd.DataFrame(records): a column for every key of any record, a missing cell
\* where a record lacks the key
FrameOf(records) ==
  LET cols == UNION {Keys(records[i]) : i \in 1..Len(records)}
  IN [columns |-> cols,
      rows |-> [i \in 1..Len(records) |-> [c \in cols |-> Get(records[i], c)]]]

\* app.py lines 131-141: the frame with the columns cols, new ones holding None
Aligned(d, cols) ==
  [columns |-> cols,
   rows |-> [i \in 1..Len(d.rows) |->
               [c \in cols |-> IF c \in d.columns THEN d.rows[i][c] ELSE PyNone]]]

\* app.py lines 131-144: pd.concat([a, b], ignore_index=True) of the aligned frames
Concat(a, b) ==
  LET all_columns == a.columns \cup b.columns
  IN [columns |-> all_columns,
      rows |-> Aligned(a, all_columns).rows \o Aligned(b, all_columns).rows]

\* the rows at the positions kept, in their order
RECURSIVE RowsAt(_, _, _)
RowsAt(rows, kept, i) ==
  IF i > Len(rows) THEN <<>>
  ELSE (IF i \in kept THEN <<rows[i]>> ELSE <<>>) \o RowsAt(rows, kept, i + 1)

\* df.drop_duplicates(subset=subset, keep='first'): a row goes when an earlier
\* row has equal cells in every column of subset, missing cells counting as equal
drop_duplicates(d, subset) ==
  LET kept == {i \in 1..Len(d.rows) :
                 ~\E j \in 1..(i - 1) : \A c \in subset : d.rows[j][c] = d.rows[i][c]}
  IN [columns |-> d.columns, rows |-> RowsAt(d.rows, kept, 1)]

(***************************************************************************)
(* src/app.py: process_all_data and remove_duplicates.                     *)
(*   an uploaded HTML file: [name, utf8, doc], utf8 telling whether its    *)
(*   bytes decode; the previous-data file: NoFile or [e, name, readable,   *)
(*   frame], frame being what read_csv / read_excel returns.               *)
(***************************************************************************)
NoFile == [e |-> FALSE]

FullMethod == "Full Property Info (CSS Selector)"
DetailedMethod == "Detailed Property Features"

\* lines 81-90: previous_data, and whether the load raised
LoadPrevious(file) ==
  IF ~file.e THEN [frame |-> EmptyFrame, failed |-> FALSE]
  ELSE IF ~file.readable THEN [frame |-> EmptyFrame, failed |-> TRUE]
  ELSE [frame |-> file.frame, failed |-> FALSE]

\* datetime.now().isoformat() at the i-th file of the batch
Now(i) == PyStr("2024-01-01T00:00:0" \o ToString(i))

\* lines 103-104: the full record flattened, unless the extractor raised
FlattenedData(r) == IF r.exc # "" THEN r ELSE Ok(flatten_property_info(InfoDict(r.v)))

\* lines 105-107: the features dict, unless the extractor raised
FeaturesData(r) == IF r.exc # "" THEN r ELSE Ok(FeaturesDict(r.v))

\* lines 100-107: flattened_data for one uploaded file, or the exception raised
ExtractFile(file, method) ==
  IF ~file.utf8 THEN Raise("UnicodeDecodeError")
  ELSE IF method = FullMethod
  THEN FlattenedData(extract_full_property_info_css_selector(file.doc, PyNone))
  ELSE FeaturesData(extract_detailed_property_features(file.doc, PyNone))

\* lines 110-112: the metadata added to the record
WithMetadata(flattened_data, name, i, method) ==
  DictSet(DictSet(DictSet(flattened_data, PyStr("filename"), PyStr(name)),
                  PyStr("processed_date"), Now(i)),
          PyStr("extraction_method"), PyStr(method))

\* lines 350-364: the columns remove_duplicates compares
DuplicateCheckColumns(columns) ==
  IF "source_url" \in columns THEN {"source_url"}
  ELSE IF "filename" \in columns THEN {"filename"}
  ELSE LET potential_columns ==
             <<"price", "location", "property_type", "rooms", "bathrooms", "size_built_sqm">>
           available == SelectSeq(potential_columns, LAMBDA c : c \in columns)
       IN {available[i] : i \in 1..Len(available) \cap 1..3}

\* lines 344-374: processed_data after remove_duplicates
Deduplicated(d) ==
  IF FrameEmpty(d) THEN d
  ELSE IF DuplicateCheckColumns(d.columns) = {} THEN drop_duplicates(d, d.columns)
  ELSE drop_duplicates(d, DuplicateCheckColumns(d.columns))

(***************************************************************************)
(* src/database.py: the properties table is the sequence of its rows in    *)
(* rowid order; data_json holds the text json.dumps wrote.                 *)
(***************************************************************************)
\* property_data.get(key, default)
GetOr(record, key, default) ==
  IF HasKey(record, PyStr(key)) THEN DictGet(record, PyStr(key)) ELSE default

\* a value sqlite3 can bind to a parameter
Bindable(v) == v.t \in {"None", "str", "int", "bool"}

\* the value a TEXT column holds for a bound value
AsText(v) ==
  CASE v.t = "int" -> PyStr(ToString(v.n))
    [] v.t = "bool" -> PyStr(IF v.b THEN "1" ELSE "0")
    [] OTHER -> v

\* lines 60-70: the columns promoted from the record, before binding
Promoted(property_data) ==
  [filename |-> GetOr(property_data, "filename", PyStr("")),
   processed_date |-> GetOr(property_data, "processed_date", PyStr("")),
   extraction_method |-> GetOr(property_data, "extraction_method", PyStr("")),
   source_url |-> GetOr(property_data, "source_url", PyStr("")),
   price |-> GetOr(property_data, "price", GetOr(property_data, "ad_info_price", PyStr(""))),
   location |-> GetOr(property_data, "location",
                      GetOr(property_data, "ad_info_location", PyStr(""))),
   property_type |-> GetOr(property_data, "property_type",
                           GetOr(property_data, "ad_info_typology", PyStr(""))),
   rooms |-> GetOr(property_data, "rooms", PyStr("")),
   bathrooms |-> GetOr(property_data, "bathrooms", PyStr("")),
   size_built_sqm |-> GetOr(property_data, "size_built_sqm", PyStr("")),
   size_useful_sqm |-> GetOr(property_data, "size_useful_sqm", PyStr(""))]

\* lines 51-92: the table after insert_property_data(property_data); a value
\* sqlite3 cannot bind raises sqlite3.Error, which is caught: nothing is stored
Inserted(table, property_data) ==
  LET p == Promoted(property_data)
  IN IF \E f \in DOMAIN p : ~Bindable(p[f]) THEN table
     ELSE Append(table,
            [id |-> Len(table) + 1,
             data_json |-> Dumps(property_data)] @@ [f \in DOMAIN p |-> AsText(p[f])])

\* combined_data.update(json_data), from item i of json_data on
RECURSIVE DictUpdate(_, _, _)
DictUpdate(d, other, i) ==
  IF i > Len(other.d) THEN d
  ELSE DictUpdate(DictSet(d, other.d[i].k, other.d[i].v), other, i + 1)

\* the columns of the properties table (lines 26-40)
TableColumns ==
  <<"id", "filename", "processed_date", "extraction_method", "data_json", "source_url",
    "price", "location", "property_type", "rooms", "bathrooms", "size_built_sqm",
    "size_useful_sqm">>

\* row.to_dict()
RowDict(row) ==
  PyDict([i \in 1..Len(TableColumns) |->
            Item(PyStr(TableColumns[i]),
                 IF TableColumns[i] = "id" THEN PyInt(row.id)
                 ELSE IF TableColumns[i] = "data_json" THEN PyStr(row.data_json)
                 ELSE row[TableColumns[i]])])

\* what json.loads returns for the text json.dumps wrote for v: dict keys are str
RECURSIVE JsonValue(_)
JsonValue(v) ==
  CASE v.t = "list" -> PyList([i \in 1..Len(v.l) |-> JsonValue(v.l[i])])
    [] v.t = "dict" ->
         PyDict([i \in 1..Len(v.d) |-> Item(PyStr(KeyText(v.d[i].k)), JsonValue(v.d[i].v))])
    [] OTHER -> v

(***************************************************************************)
(* The inputs explored for process_all_data, remove_duplicates and the     *)
(* database.                                                               *)
(***************************************************************************)
\* a page with nothing the extractors look for
PlainDoc == EmptyDoc

\* a page with a canonical link only
CanonDoc == [EmptyDoc EXCEPT !.links = <<Link(<<"canonical">>, PyStr("https://c/1"))>>]

\* a complete page
GoodDoc ==
  [EmptyDoc EXCEPT
     !.links = <<Link(<<"canonical">>, PyStr("https://c/2"))>>,
     !.scripts = <<GoodScript>>,
     !.price = Text(" 250.000 € "),
     !.details = Details(FeatureOne(<<Li("3 habitaciones", <<>>)>>),
                         FeatureTwo(<<SomeEquipment, SomeEnergy>>))]

\* a page whose basic-features section lacks its inner list div
BareDoc == [EmptyDoc EXCEPT !.details = Details(FeatureOneBare, NoTag)]

\* a page whose utag_data is a number
NumberDoc == [EmptyDoc EXCEPT !.scripts = <<Script(PyStr("var utag_data = 1;"))>>]

\* the contents of an uploaded file: bytes that do not decode, or a page
FileContents ==
  {[utf8 |-> FALSE, doc |-> EmptyDoc]}
  \cup {[utf8 |-> TRUE, doc |-> d] : d \in {PlainDoc, CanonDoc, GoodDoc, BareDoc, NumberDoc}}

FileName(i) == "f" \o ToString(i) \o ".html"

\* the batches of uploaded files (main calls process_all_data with at least one)
UploadedFiles ==
  {[i \in 1..Len(q) |-> [name |-> FileName(i), utf8 |-> q[i].utf8, doc |-> q[i].doc]] :
     q \in SeqsUpTo(FileContents, MaxFiles) \ {<<>>}}

\* a row with the given source_url and price
UrlRow(url, price) == [c \in {"source_url", "price"} |-> IF c = "price" THEN price ELSE url]

\* a table with repeated and with missing source_url cells
UrlFrame ==
  [columns |-> {"source_url", "price"},
   rows |-> <<UrlRow(PyStr("https://c/1"), PyStr("100")), UrlRow(PyStr("https://c/9"), PyStr("200")),
              UrlRow(PyStr("https://c/1"), PyStr("300")), UrlRow(PyNone, PyStr("400")),
              UrlRow(PyNone, PyStr("500"))>>]

\* tables without a source_url column
NameFrame ==
  [columns |-> {"filename", "price"},
   rows |-> <<[c \in {"filename", "price"} |-> IF c = "price" THEN PyStr("100") ELSE PyStr("a.html")],
              [c \in {"filename", "price"} |-> IF c = "price" THEN PyStr("200") ELSE PyStr("a.html")]>>]

FieldFrame ==
  [columns |-> {"price", "rooms", "note"},
   rows |-> <<[c \in {"price", "rooms", "note"} |-> IF c = "note" THEN PyStr("x") ELSE PyStr("1")],
              [c \in {"price", "rooms", "note"} |-> IF c = "note" THEN PyStr("y") ELSE PyStr("1")]>>]

NoteFrame ==
  [columns |-> {"note"},
   rows |-> <<[c \in {"note"} |-> PyStr("x")], [c \in {"note"} |-> PyStr("x")],
              [c \in {"note"} |-> PyStr("y")]>>]

\* what the session holds before the call
Sessions == {EmptyFrame, UrlFrame, NameFrame, FieldFrame, NoteFrame}

\* the previous-data upload: none, one that cannot be read, a header without
\* rows, and a table of two rows
PreviousFiles ==
  {NoFile,
   [e |-> TRUE, name |-> "prev.csv", readable |-> FALSE, frame |-> EmptyFrame],
   [e |-> TRUE, name |-> "prev.xlsx", readable |-> TRUE,
    frame |-> [columns |-> {"source_url", "price"}, rows |-> <<>>]],
   [e |-> TRUE, name |-> "prev.csv", readable |-> TRUE,
    frame |-> [columns |-> {"source_url", "price"},
               rows |-> <<UrlRow(PyStr("https://c/1"), PyStr("100")),
                          UrlRow(PyNone, PyStr("400"))>>]]}

\* the flat records handed to insert_property_data: what the two pipelines give
\* for a page, with and without the metadata process_all_data adds
DbRecords ==
  {IF c.metadata THEN WithMetadata(c.data, c.name, 1, c.method) ELSE c.data :
     c \in {[data |-> ExtractFile([utf8 |-> TRUE, doc |-> d], m).v, name |-> n,
              method |-> m, metadata |-> b] :
              d \in {PlainDoc, GoodDoc}, m \in {FullMethod, DetailedMethod},
              n \in {"f1.html"}, b \in BOOLEAN}}

\* every record with the text json.dumps writes for it
DataJsonTexts == {[v |-> JsonValue(r), s |-> Dumps(r)] : r \in DbRecords}

\* json.loads(row['data_json'])
Parsed(texts) ==
  IF texts = {} THEN Raise("JSONDecodeError") ELSE Ok((CHOOSE j \in texts : TRUE).v)

data_json_loads(s) == Parsed({j \in DataJsonTexts : j.s = s})

\* lines 108-119: the dict built for a row from what json.loads gave
CombinedData(row, json_data) ==
  IF json_data.exc # "" THEN RowDict(row)
  ELSE DictUpdate(PyDict(<<Item(PyStr("id"), PyInt(row.id)),
                           Item(PyStr("filename"), row.filename),
                           Item(PyStr("processed_date"), row.processed_date),
                           Item(PyStr("extraction_method"), row.extraction_method)>>),
                  json_data.v, 1)

\* get_all_properties taking the table's own columns only
ExpandedRowBasicOnly(row) == RowDict(row)

\* lines 105-119: the dict get_all_properties builds for a row
ExpandedRow(row) == CombinedData(row, data_json_loads(row.data_json))

\* lines 94-131: the DataFrame get_all_properties returns
get_all_properties(table) ==
  IF table = <<>>
  THEN [columns |-> {TableColumns[i] : i \in 1..Len(TableColumns)}, rows |-> <<>>]
  ELSE FrameOf([i \in 1..Len(table) |-> ExpandedRow(table[i])])

\* the components at rest while another one is explored
ExtractorsIdle ==
  /\ fn = "none" /\ html = EmptyDoc /\ page_url = PyNone /\ pc = "off" /\ exc = ""
  /\ property_info = EmptyInfo(PyNone) /\ flattened_info = EmptyDict
  /\ property_features = Defaults(PyNone) /\ items = <<>> /\ idx = 0

AppIdle ==
  /\ html_files = <<>> /\ data_file = NoFile /\ extraction_method = ""
  /\ processed_data = EmptyFrame /\ previous_data = EmptyFrame
  /\ processed_records = <<>> /\ file_i = 0 /\ status_text = <<>> /\ errors = <<>>
  /\ app_pc = "off"

DbIdle == properties = <<>> /\ df = EmptyFrame /\ inserted = <<>>

(***************************************************************************)
(* The state machine.  A behaviour is one call: Init draws the function,   *)
(* the document and page_url; the actions are the steps of the call.  pc   *)
(* ends at "returned" ("flattened" once the full record has been           *)
(* flattened, as process_all_data does) or at "raised" with exc naming the *)
(* exception that left the function.                                       *)
(***************************************************************************)
Init ==
  /\ \E c \in Calls : fn = c.fn /\ html = c.html /\ page_url = c.page_url
  /\ pc = "start"
  /\ exc = ""
  /\ property_info = EmptyInfo(PyNone)
  /\ flattened_info = EmptyDict
  /\ property_features = Defaults(PyNone)
  /\ items = <<>>
  /\ idx = 0
  /\ AppIdle /\ DbIdle

\* the function ends with the exception e
Raised(e) == pc' = "raised" /\ exc' = e

\* lines 21-32: the empty record, source_url resolved
FullCanonical ==
  /\ fn = "full" /\ pc = "start"
  /\ property_info' = EmptyInfo(CanonicalOr(html.links, page_url))
  /\ pc' = "utag"
  /\ UNCHANGED <<fn, html, page_url, exc, flattened_info, property_features, items, idx>>
  /\ UNCHANGED <<appvars, dbvars>>

\* lines 34-95: the utag_data script
FullUtag ==
  /\ fn = "full" /\ pc = "utag"
  /\ LET slice == UtagSlice(SelectScript(html.scripts))
         utag_data == IF slice.e THEN json_loads(slice.s) ELSE Raise("")
         filled == IF slice.e /\ utag_data.exc = ""
                   THEN FillFromUtag(utag_data.v, property_info)
                   ELSE Ok(property_info)
     IN IF filled.exc # ""
        THEN Raised(filled.exc) /\ UNCHANGED property_info
        ELSE property_info' = filled.v /\ pc' = "details" /\ UNCHANGED exc
  /\ UNCHANGED <<fn, html, page_url, flattened_info, property_features, items, idx>>
  /\ UNCHANGED <<appvars, dbvars>>

\* lines 97-130: the details harvest and the return
FullDetailsStep ==
  /\ fn = "full" /\ pc = "details"
  /\ LET r == FullDetails(html.details, property_info)
     IN IF r.exc # ""
        THEN Raised(r.exc) /\ UNCHANGED property_info
        ELSE property_info' = r.v /\ pc' = "returned" /\ UNCHANGED exc
  /\ UNCHANGED <<fn, html, page_url, flattened_info, property_features, items, idx>>
  /\ UNCHANGED <<appvars, dbvars>>

\* flatten_property_info(property_data) on the returned record
Flatten ==
  /\ fn = "full" /\ pc = "returned"
  /\ flattened_info' = flatten_property_info(InfoDict(property_info))
  /\ pc' = "flattened"
  /\ UNCHANGED <<fn, html, page_url, exc, property_info, property_features, items, idx>>
  /\ UNCHANGED <<appvars, dbvars>>

\* lines 170-203: the defaults, source_url resolved
DetCanonical ==
  /\ fn = "detailed" /\ pc = "start"
  /\ property_features' = Defaults(CanonicalOr(html.links, page_url))
  /\ pc' = "header"
  /\ UNCHANGED <<fn, html, page_url, exc, property_info, flattened_info, items, idx>>
  /\ UNCHANGED <<appvars, dbvars>>

\* lines 205-251: price, location, update date, advertiser, info-features size
DetHeader ==
  /\ fn = "detailed" /\ pc = "header"
  /\ property_features' = Header(html, property_features)
  /\ pc' = "details"
  /\ UNCHANGED <<fn, html, page_url, exc, property_info, flattened_info, items, idx>>
  /\ UNCHANGED <<appvars, dbvars>>

\* lines 253-260: the details container and the basic-features list
DetDetails ==
  /\ fn = "detailed" /\ pc = "details"
  /\ IF ~html.details.e
     THEN pc' = "returned" /\ UNCHANGED <<exc, items, idx>>
     ELSE IF ~html.details.one.e
     THEN pc' = "equipment" /\ UNCHANGED <<exc, items, idx>>
     ELSE IF ~html.details.one.features.e
     THEN Raised("AttributeError") /\ UNCHANGED <<items, idx>>
     ELSE /\ items' = html.details.one.features.li
          /\ idx' = 1
          /\ pc' = "basic"
          /\ UNCHANGED exc
  /\ UNCHANGED <<fn, html, page_url, property_info, flattened_info, property_features>>
  /\ UNCHANGED <<appvars, dbvars>>

\* lines 261-303: one iteration of the basic-features loop
DetBasicItem ==
  /\ fn = "detailed" /\ pc = "basic" /\ idx <= Len(items)
  /\ LET r == BasicFeature(Strip(LiText(items[idx])), property_features)
     IN IF r.exc # ""
        THEN Raised(r.exc) /\ UNCHANGED <<property_features, idx>>
        ELSE property_features' = r.v /\ idx' = idx + 1 /\ UNCHANGED <<pc, exc>>
  /\ UNCHANGED <<fn, html, page_url, property_info, flattened_info, items>>
  /\ UNCHANGED <<appvars, dbvars>>

\* the basic-features loop ends
DetBasicEnd ==
  /\ fn = "detailed" /\ pc = "basic" /\ idx > Len(items)
  /\ pc' = "equipment"
  /\ UNCHANGED <<fn, html, page_url, exc, property_info, flattened_info,
                 property_features, items, idx>>
  /\ UNCHANGED <<appvars, dbvars>>

\* lines 306-310: the equipment section and its first list
DetEquipment ==
  /\ fn = "detailed" /\ pc = "equipment"
  /\ IF html.details.two.e /\ Len(html.details.two.lists) > 0
     THEN items' = html.details.two.lists[1] /\ idx' = 1 /\ pc' = "equip_items"
     ELSE pc' = "returned" /\ UNCHANGED <<items, idx>>
  /\ UNCHANGED <<fn, html, page_url, exc, property_info, flattened_info, property_features>>
  /\ UNCHANGED <<appvars, dbvars>>

\* lines 311-316: one iteration of the equipment loop
DetEquipItem ==
  /\ fn = "detailed" /\ pc = "equip_items" /\ idx <= Len(items)
  /\ property_features' = EquipmentFeature(Strip(LiText(items[idx])), property_features)
  /\ idx' = idx + 1
  /\ UNCHANGED <<fn, html, page_url, pc, exc, property_info, flattened_info, items>>
  /\ UNCHANGED <<appvars, dbvars>>

\* line 318: the equipment loop ends; the second list, if any
DetEquipEnd ==
  /\ fn = "detailed" /\ pc = "equip_items" /\ idx > Len(items)
  /\ IF Len(html.details.two.lists) > 1
     THEN items' = html.details.two.lists[2] /\ idx' = 1 /\ pc' = "energy"
     ELSE pc' = "returned" /\ UNCHANGED <<items, idx>>
  /\ UNCHANGED <<fn, html, page_url, exc, property_info, flattened_info, property_features>>
  /\ UNCHANGED <<appvars, dbvars>>

\* lines 320-333: one iteration of the energy-certificate loop
DetEnergyItem ==
  /\ fn = "detailed" /\ pc = "energy" /\ idx <= Len(items)
  /\ property_features' = EnergyFeature(items[idx], property_features)
  /\ idx' = idx + 1
  /\ UNCHANGED <<fn, html, page_url, pc, exc, property_info, flattened_info, items>>
  /\ UNCHANGED <<appvars, dbvars>>

\* line 335: the energy loop ends and the function returns
DetEnergyEnd ==
  /\ fn = "detailed" /\ pc = "energy" /\ idx > Len(items)
  /\ pc' = "returned"
  /\ UNCHANGED <<fn, html, page_url, exc, property_info, flattened_info,
                 property_features, items, idx>>
  /\ UNCHANGED <<appvars, dbvars>>

Next ==
  \/ FullCanonical \/ FullUtag \/ FullDetailsStep \/ Flatten
  \/ DetCanonical \/ DetHeader \/ DetDetails \/ DetBasicItem \/ DetBasicEnd
  \/ DetEquipment \/ DetEquipItem \/ DetEquipEnd \/ DetEnergyItem \/ DetEnergyEnd

Spec == Init /\ [][Next]_vars

(***************************************************************************)
(* src/app.py.  A behaviour is one press of the Process button on a        *)
(* session: Init draws the uploaded files, the previous-data file, the     *)
(* extraction method and what the session already holds; the steps of      *)
(* process_all_data follow, and remove_duplicates can run before or after. *)
(* status_text and errors are the texts written to the page, in order.     *)
(***************************************************************************)
AppInit ==
  /\ ExtractorsIdle /\ DbIdle
  /\ html_files \in UploadedFiles
  /\ data_file \in PreviousFiles
  /\ extraction_method \in {FullMethod, DetailedMethod}
  /\ processed_data \in Sessions
  /\ previous_data = EmptyFrame
  /\ processed_records = <<>>
  /\ file_i = 0
  /\ status_text = <<>>
  /\ errors = <<>>
  /\ app_pc = "idle"

\* lines 78-93: the previous data is loaded, the batch starts
ProcessStart ==
  /\ app_pc = "idle"
  /\ previous_data' = LoadPrevious(data_file).frame
  /\ errors' = IF LoadPrevious(data_file).failed
               THEN Append(errors, "Error loading previous data") ELSE errors
  /\ processed_records' = <<>>
  /\ file_i' = 1
  /\ app_pc' = "files"
  /\ UNCHANGED <<html_files, data_file, extraction_method, processed_data, status_text>>
  /\ UNCHANGED <<extvars, dbvars>>

\* lines 98-122: the record of the file appended, or its error shown
Recorded(uploaded_file, r) ==
  IF r.exc # ""
  THEN /\ errors' = Append(errors, "Error processing " \o uploaded_file.name)
       /\ UNCHANGED processed_records
  ELSE /\ processed_records' =
            Append(processed_records,
                   WithMetadata(r.v, uploaded_file.name, file_i, extraction_method))
       /\ UNCHANGED errors

\* the loop body with a handler that ends the loop at the first failing file
ProcessFileStopsAtError ==
  /\ app_pc = "files" /\ file_i <= Len(html_files)
  /\ status_text' = Append(status_text, "Processing " \o html_files[file_i].name \o "...")
  /\ Recorded(html_files[file_i], ExtractFile(html_files[file_i], extraction_method))
  /\ file_i' = IF ExtractFile(html_files[file_i], extraction_method).exc # ""
               THEN Len(html_files) + 1 ELSE file_i + 1
  /\ UNCHANGED <<html_files, data_file, extraction_method, processed_data, previous_data,
                 app_pc>>
  /\ UNCHANGED <<extvars, dbvars>>

\* lines 95-126: one iteration of the loop over the uploaded files
ProcessFile ==
  /\ app_pc = "files" /\ file_i <= Len(html_files)
  /\ status_text' = Append(status_text, "Processing " \o html_files[file_i].name \o "...")
  /\ Recorded(html_files[file_i], ExtractFile(html_files[file_i], extraction_method))
  /\ file_i' = file_i + 1
  /\ UNCHANGED <<html_files, data_file, extraction_method, processed_data, previous_data,
                 app_pc>>
  /\ UNCHANGED <<extvars, dbvars>>

\* the combination keeping what the session already held in front of the result
ProcessCombineKeepsSession ==
  /\ app_pc = "files" /\ file_i > Len(html_files)
  /\ LET new_data == IF processed_records # <<>> THEN FrameOf(processed_records)
                     ELSE EmptyFrame
     IN processed_data' = Concat(processed_data, Concat(previous_data, new_data))
  /\ app_pc' = "done"
  /\ UNCHANGED <<html_files, data_file, extraction_method, previous_data,
                 processed_records, file_i, status_text, errors>>
  /\ UNCHANGED <<extvars, dbvars>>

\* lines 128-158: the new records become a table and are combined with the
\* previous data
ProcessCombine ==
  /\ app_pc = "files" /\ file_i > Len(html_files)
  /\ LET new_data == IF processed_records # <<>> THEN FrameOf(processed_records)
                     ELSE EmptyFrame
         all_columns == previous_data.columns \cup new_data.columns
     IN IF ~FrameEmpty(previous_data) /\ ~FrameEmpty(new_data)
        THEN /\ processed_data' = Concat(previous_data, new_data)
             /\ previous_data' = Aligned(previous_data, all_columns)
             /\ status_text' = Append(status_text, "Processing complete! Combined")
             /\ UNCHANGED errors
        ELSE IF ~FrameEmpty(new_data)
        THEN /\ processed_data' = new_data
             /\ status_text' = Append(status_text, "Processing complete! Processed")
             /\ UNCHANGED <<previous_data, errors>>
        ELSE IF ~FrameEmpty(previous_data)
        THEN /\ processed_data' = previous_data
             /\ status_text' = Append(status_text, "Loaded")
             /\ UNCHANGED <<previous_data, errors>>
        ELSE /\ errors' = Append(errors, "No data was processed successfully.")
             /\ UNCHANGED <<processed_data, previous_data, status_text>>
  /\ app_pc' = "done"
  /\ UNCHANGED <<html_files, data_file, extraction_method, processed_records, file_i>>
  /\ UNCHANGED <<extvars, dbvars>>

\* lines 342-374: remove_duplicates, between two runs of process_all_data
RemoveDuplicates ==
  /\ app_pc \in {"idle", "done"}
  /\ processed_data' = Deduplicated(processed_data)
  /\ UNCHANGED <<html_files, data_file, extraction_method, previous_data,
                 processed_records, file_i, status_text, errors, app_pc>>
  /\ UNCHANGED <<extvars, dbvars>>

AppNext == ProcessStart \/ ProcessFile \/ ProcessCombine \/ RemoveDuplicates

SpecApp == AppInit /\ [][AppNext]_vars

(***************************************************************************)
(* src/database.py.  A behaviour is a sequence of insert_property_data and *)
(* get_all_properties calls on the table init_database created; inserted   *)
(* records the arguments of the insert calls, df the last DataFrame        *)
(* returned.                                                               *)
(***************************************************************************)
DbInit ==
  /\ ExtractorsIdle /\ AppIdle
  /\ properties = <<>>
  /\ df = EmptyFrame
  /\ inserted = <<>>

\* insert_property_data(property_data)
InsertPropertyData ==
  /\ Len(properties) < MaxRows
  /\ \E property_data \in DbRecords :
       /\ properties' = Inserted(properties, property_data)
       /\ inserted' = Append(inserted, property_data)
  /\ UNCHANGED df
  /\ UNCHANGED <<extvars, appvars>>

\* get_all_properties()
GetAllProperties ==
  /\ df' = get_all_properties(properties)
  /\ UNCHANGED <<properties, inserted>>
  /\ UNCHANGED <<extvars, appvars>>

DbNext == InsertPropertyData \/ GetAllProperties

SpecDb == DbInit /\ [][DbNext]_vars

(***************************************************************************)
(* Properties.  The expected values are stated from the documents, not     *)
(* from the operators of the model.                                        *)
(***************************************************************************)
\* the call has returned a record
Returned == pc \in {"returned", "flattened"}

\* the source_url of the record under construction
SourceUrl ==
  IF fn = "full" THEN property_info.source_url ELSE property_features.source_url

\* the position of the first link whose rel tokens include canonical, 0 if none
RECURSIVE FirstCanonical(_, _)
FirstCanonical(links, i) ==
  IF i > Len(links) THEN 0
  ELSE IF "canonical" \in {links[i].rel[j] : j \in 1..Len(links[i].rel)} THEN i
  ELSE FirstCanonical(links, i + 1)

\* C1 as stated: the returned source_url is the href of the first canonical
\* link whenever such a link exists, and the caller's page_url otherwise.
C1_AsStated ==
  Returned =>
    LET i == FirstCanonical(html.links, 1)
    IN SourceUrl = IF i # 0 THEN html.links[i].href ELSE page_url

\* C1 amended: the returned source_url is the href of the first canonical link
\* when that link has a non-empty href; in every other case (no canonical
\* link, or the first one has no href or an empty one) it is the caller's
\* page_url, None when none was given.
C1_SourceUrl ==
  Returned =>
    LET i == FirstCanonical(html.links, 1)
    IN SourceUrl = IF i # 0 /\ html.links[i].href \notin {PyNone, PyStr("")}
                   THEN html.links[i].href
                   ELSE page_url

C1_Witness ==
  /\ Returned
  /\ page_url = PyStr("https://p")
  /\ Len(html.links) = 2
  /\ FirstCanonical(html.links, 1) = 2
  /\ SourceUrl = PyStr("https://c/2")

\* the utag_data value whose assignment is the document's only script, if any
IsUtagOf(j) == html.scripts = <<j.script>>

\* the text after the last "-" of s (all of s when it has none)
LastSegment(s) ==
  LET dashes == {i \in 1..Len(s) : SubSeq(s, i, i) = "-"}
  IN IF dashes = {} THEN s
     ELSE LET last == CHOOSE m \in dashes : \A n \in dashes : n <= m
          IN IF last = Len(s) THEN "" ELSE SubSeq(s, last + 1, Len(s))

\* utag_data is an object whose ad.address is a mapping with string (or no) ids
WellFormedAddress(v) ==
  /\ IsDict(v) /\ IsDict(Get(v, "ad")) /\ IsDict(Get(Get(v, "ad"), "address"))
  /\ \A k \in {"municipalityId", "provinceId"} :
       Get(Get(Get(v, "ad"), "address"), k).t \in {"None", "str"}

\* the location the claim gives for an address, `missing` being the id values
\* that count as not present
ClaimedLocation(address, missing) ==
  LET m == Get(address, "municipalityId")
      p == Get(address, "provinceId")
  IN IF Get(address, "locationLevel") # PyStr("6") THEN PyNone
     ELSE IF m \notin missing /\ p \notin missing
          THEN PyStr(LastSegment(m.s) \o ", " \o LastSegment(p.s))
     ELSE IF m \notin missing THEN PyStr(LastSegment(m.s))
     ELSE IF p \notin missing THEN PyStr(LastSegment(p.s))
     ELSE PyNone

\* C2 as stated: location is absent unless locationLevel is "6"; at "6" it is
\* the last segments of the ids that are present, joined with ", ".
C2_AsStated ==
  (fn = "full" /\ Returned) =>
    \A j \in JsonTexts :
      (IsUtagOf(j) /\ WellFormedAddress(j.v)) =>
        Get(property_info.ad_info, "location") =
          ClaimedLocation(Get(Get(j.v, "ad"), "address"), {PyNone})

\* C2 amended: as stated, an id counting as present when it is a non-empty
\* string (an id that is missing, null or "" contributes nothing).
C2_Location ==
  (fn = "full" /\ Returned) =>
    \A j \in JsonTexts :
      (IsUtagOf(j) /\ WellFormedAddress(j.v)) =>
        Get(property_info.ad_info, "location") =
          ClaimedLocation(Get(Get(j.v, "ad"), "address"), {PyNone, PyStr("")})

C2_Witness ==
  /\ fn = "full" /\ Returned
  /\ \E j \in JsonTexts :
       /\ IsUtagOf(j) /\ WellFormedAddress(j.v)
       /\ Get(Get(Get(j.v, "ad"), "address"), "municipalityId") = PyStr("0-EU-ES-28")
       /\ Get(Get(Get(j.v, "ad"), "address"), "provinceId") = PyStr("0-EU-ES-28-")
       /\ Get(Get(Get(j.v, "ad"), "address"), "locationLevel") = PyStr("6")
  /\ Get(property_info.ad_info, "location") = PyStr("28, ")

\* the stripped texts of a list of li, as the record holds them
TextsOf(lis) == PyList([i \in 1..Len(lis) |-> PyStr(Strip(LiText(lis[i])))])

\* the basic_features and equipment the full extractor is to report for a
\* details container, a missing piece counting as an empty list
ClaimedBasic(d) ==
  IF d.e /\ d.one.e /\ d.one.features.e THEN TextsOf(d.one.features.li) ELSE PyList(<<>>)

ClaimedEquipment(d) ==
  IF d.e /\ d.two.e /\ Len(d.two.lists) > 0 THEN TextsOf(d.two.lists[1]) ELSE PyList(<<>>)

\* the document's only script assigns text that is not JSON to utag_data
MalformedUtag == \E b \in MalformedTexts : html.scripts = <<ScriptOf(b, ";")>>

\* C3: when the text between `var utag_data = ` and the next `;` is not valid
\* JSON the full extractor does not raise, returns empty characteristics and
\* ad_info, and fills details as for the same document without the script.
C3_MalformedJson ==
  (fn = "full" /\ MalformedUtag) =>
    /\ pc # "raised"
    /\ Returned =>
         /\ property_info.characteristics = EmptyDict
         /\ property_info.ad_info = EmptyDict
         /\ property_info.details.basic_features = ClaimedBasic(html.details)
         /\ property_info.details.equipment = ClaimedEquipment(html.details)

\* C4: the full extractor never raises for utag_data content that parses as
\* JSON, whatever its shape (the documents here have no details container).
C4_AnyJsonShape ==
  (fn = "full" /\ ~html.details.e /\ \E j \in JsonTexts : IsUtagOf(j)) => pc # "raised"

\* C5: a missing element at any step of the details harvest (here the inner
\* features list div of the basic-features section, in a document without
\* scripts) raises nothing, and the other sub-parts are extracted as if the
\* missing piece were empty.
C5_MissingPiece ==
  (html.scripts = <<>> /\ html.details.e /\ html.details.one.e
     /\ ~html.details.one.features.e) =>
    /\ pc # "raised"
    /\ (fn = "full" /\ Returned) =>
         /\ property_info.details.basic_features = PyList(<<>>)
         /\ property_info.details.equipment = ClaimedEquipment(html.details)

\* the class tokens of the form icon-energy-x-<letter>, and the letter
RatingTokens == {"icon-energy-c-e", "icon-energy-c-c"}
RatingLetter(token) == SubSeq(token, Len(token), Len(token))

\* the energy list holds exactly one item: a label span containing the word
\* and a rating span with the single class token
OneRatingItem(word, token) ==
  /\ html.details.e /\ html.details.two.e /\ Len(html.details.two.lists) > 1
  /\ Len(html.details.two.lists[2]) = 1
  /\ LET li == html.details.two.lists[2][1]
     IN /\ Len(li.spans) = 2
        /\ In(word, li.spans[1].text)
        /\ li.spans[2].class = PyList(<<token>>)

\* the ratings of the returned record
ConsumptionRating ==
  IF fn = "full"
  THEN Get(property_info.details.energy_certificate, "consumption_rating")
  ELSE property_features.energy_consumption_rating

EmissionsRating ==
  IF fn = "full"
  THEN Get(property_info.details.energy_certificate, "emissions_rating")
  ELSE property_features.energy_emissions_rating

\* C6: for a class token icon-energy-x-<letter> the stored rating is <letter>
\* uppercased; for a token of fewer than 3 dash-separated segments it is absent.
C6_RatingLetter ==
  Returned =>
    /\ \A token \in RatingTokens :
         /\ OneRatingItem("Consumo", token) =>
              ConsumptionRating = PyStr(Upper(RatingLetter(token)))
         /\ OneRatingItem("Emisiones", token) =>
              EmissionsRating = PyStr(Upper(RatingLetter(token)))
    /\ OneRatingItem("Consumo", "icon-energy") => ConsumptionRating = PyNone
    /\ OneRatingItem("Emisiones", "icon-energy") => EmissionsRating = PyNone

\* the entries of a flat mapping, as <<key, value>> pairs
Entries(flat) == {<<flat.d[i].k.s, flat.d[i].v>> : i \in 1..Len(flat.d)}

\* the entries the key-construction rules give for one member of a group
MemberEntries(group, member) ==
  LET key == group \o "_" \o Format(member.k)
  IN IF member.v.t = "list"
     THEN {<<key \o "_" \o ToString(i - 1), member.v.l[i]>> : i \in 1..Len(member.v.l)}
     ELSE IF member.v.t = "dict"
     THEN {<<key \o "_" \o Format(member.v.d[i].k), member.v.d[i].v>> :
             i \in 1..Len(member.v.d)}
     ELSE {<<key, member.v>>}

\* the members of the three groups of a record, each with its group
Members(info) ==
  {[group |-> "characteristics", member |-> info.characteristics.d[i]] :
     i \in 1..Len(info.characteristics.d)}
  \cup {[group |-> "ad_info", member |-> info.ad_info.d[i]] : i \in 1..Len(info.ad_info.d)}
  \cup {[group |-> "details", member |-> Item(PyStr("basic_features"), info.details.basic_features)],
        [group |-> "details", member |-> Item(PyStr("equipment"), info.details.equipment)],
        [group |-> "details",
         member |-> Item(PyStr("energy_certificate"), info.details.energy_certificate)]}

\* the entries the key-construction rules give for a record
ClaimedEntries(info) ==
  UNION {MemberEntries(m.group, m.member) : m \in Members(info)}
  \cup {<<"source_url", info.source_url>>}

\* C7: the flat mapping holds exactly the entries {group}_{key} -> value for a
\* scalar member, {group}_{key}_{i} -> element for a list member,
\* {group}_{key}_{nestedKey} -> value for a nested mapping member, and
\* source_url unprefixed.
C7_FlatEntries ==
  pc = "flattened" => Entries(flattened_info) = ClaimedEntries(property_info)

\* the same members, whatever their order
SameDict(a, b) ==
  {a.d[i] : i \in 1..Len(a.d)} = {b.d[i] : i \in 1..Len(b.d)}

\* C8: flattening drops no information: no two entries of one record are
\* written to the same flat key, every flat value is a scalar, and a record
\* that differs in its characteristics has a different flat mapping.
C8_NoInformationDropped ==
  pc = "flattened" =>
    /\ \A e1, e2 \in ClaimedEntries(property_info) : e1[1] = e2[1] => e1 = e2
    /\ \A i \in 1..Len(flattened_info.d) : flattened_info.d[i].v.t \notin {"list", "dict"}
    /\ (property_info.characteristics \in CharMappings /\ property_info.ad_info # EmptyDict) =>
         \A c \in CharMappings :
           ~SameDict(c, property_info.characteristics) =>
             Entries(flatten_property_info(
                       InfoDict([property_info EXCEPT !.characteristics = c])))
               # Entries(flattened_info)

\* the ad mapping the document's script supplies: the ad member of utag_data
\* when the only script assigns an object with an ad mapping, else no member
SuppliedAd(j) == IF IsDict(j.v) /\ IsDict(Get(j.v, "ad")) THEN Get(j.v, "ad") ELSE EmptyDict

\* a sub-key of ad_info is present: the key is there with a value other than None
Present(ad_info, key) == Get(ad_info, key) # PyNone

\* C9: in the returned record each ad_info sub-key is present only if the source
\* ad mapping supplied it (location: only if it supplied an address); a fixed
\* scalar field missing from the source is absent, never 0 or "", and a
\* supplied one carries the source value unchanged.
C9_AdInfo ==
  (fn = "full" /\ Returned) =>
    \A j \in JsonTexts :
      IsUtagOf(j) =>
        LET ad == SuppliedAd(j)
            ad_info == property_info.ad_info
        IN /\ \A i \in 1..Len(FixedFields) :
                IF HasKey(ad, PyStr(FixedFields[i]))
                THEN /\ HasKey(ad_info, PyStr(FixedFields[i]))
                     /\ DictGet(ad_info, PyStr(FixedFields[i])) = DictGet(ad, PyStr(FixedFields[i]))
                ELSE ~Present(ad_info, FixedFields[i])
           /\ \A key \in {"condition", "media", "owner", "agency"} :
                Present(ad_info, key) =>
                  /\ HasKey(ad, PyStr(key))
                  /\ DictGet(ad_info, PyStr(key)) = DictGet(ad, PyStr(key))
           /\ Present(ad_info, "location") => HasKey(ad, PyStr("address"))
           /\ \A i \in 1..Len(ad_info.d) :
                ad_info.d[i].k.s \in
                  {"id", "operation", "typology", "price", "builtType", "location",
                   "condition", "media", "owner", "agency"}

C9_Witness ==
  /\ fn = "full" /\ Returned
  /\ \E j \in JsonTexts :
       /\ IsUtagOf(j)
       /\ HasKey(SuppliedAd(j), PyStr("price")) /\ ~HasKey(SuppliedAd(j), PyStr("id"))
       /\ HasKey(SuppliedAd(j), PyStr("builtType"))
  /\ Get(property_info.ad_info, "price") = PyInt(0)
  /\ Get(property_info.ad_info, "builtType") = PyStr("")
  /\ HasKey(property_info.ad_info, PyStr("id"))
  /\ ~Present(property_info.ad_info, "id")

\* the boolean-flag fields with the keywords that set them, and the section
\* whose items are searched for them
BasicFlags ==
  {[field |-> "terrace", words |-> {"Terraza"}],
   [field |-> "balcony", words |-> {"balcón", "Balcón"}],
   [field |-> "parking", words |-> {"garaje"}],
   [field |-> "built_in_wardrobes", words |-> {"Armarios empotrados"}],
   [field |-> "storage_room", words |-> {"Trastero"}]}

EquipmentFlags ==
  {[field |-> "garden", words |-> {"Jardín"}],
   [field |-> "swimming_pool", words |-> {"Piscina"}]}

FlagFields == {f.field : f \in BasicFlags \cup EquipmentFlags}

\* the texts of the items of the basic-features list and of the equipment list
BasicItemTexts ==
  IF html.details.e /\ html.details.one.e /\ html.details.one.features.e
  THEN {LiText(html.details.one.features.li[i]) : i \in 1..Len(html.details.one.features.li)}
  ELSE {}

EquipmentItemTexts ==
  IF html.details.e /\ html.details.two.e /\ Len(html.details.two.lists) > 0
  THEN {LiText(html.details.two.lists[1][i]) : i \in 1..Len(html.details.two.lists[1])}
  ELSE {}

\* some text contains one of the words
Evidence(texts, words) == \E t \in texts, w \in words : In(w, t)

\* every flag is "Yes" or "No", and "Yes" only with an item of its section
\* containing its keyword
FlagsSound ==
  fn = "detailed" =>
    /\ \A f \in FlagFields : property_features[f] \in {PyStr("Yes"), PyStr("No")}
    /\ \A f \in BasicFlags :
         property_features[f.field] = PyStr("Yes") => Evidence(BasicItemTexts, f.words)
    /\ \A f \in EquipmentFlags :
         property_features[f.field] = PyStr("Yes") => Evidence(EquipmentItemTexts, f.words)
    /\ ~Evidence(BasicItemTexts, {"Terraza", "Trastero", "garaje"}) =>
         /\ property_features.terrace = PyStr("No")
         /\ property_features.storage_room = PyStr("No")
         /\ property_features.parking = PyStr("No")

\* a flag that is "Yes" is "Yes" after the step
FlagsKept ==
  \A f \in FlagFields :
    property_features[f] = PyStr("Yes") => property_features'[f] = PyStr("Yes")

\* C10: in the detailed extractor every boolean flag is "Yes" or "No"; a flag
\* is "Yes" only if an item of its section contains its keyword (so without
\* Terraza, Trastero and garaje items terrace, storage_room and parking are
\* "No"); and no later item sets a "Yes" flag back to "No".
C10_Flags == [](FlagsSound) /\ [][FlagsKept]_vars

C10_Witness ==
  /\ fn = "detailed" /\ pc = "returned"
  /\ html.details.e /\ html.details.one.e /\ html.details.one.features.e
  /\ Len(html.details.one.features.li) = 2
  /\ In("Terraza", LiText(html.details.one.features.li[1]))
  /\ ~In("Terraza", LiText(html.details.one.features.li[2]))
  /\ property_features.terrace = PyStr("Yes")
  /\ property_features.parking = PyStr("No")

\* the detailed extractor runs on a document without a details container
NoDetails == fn = "detailed" /\ ~html.details.e

\* the fields filled from the details container, with their defaults
DetailsDefaults ==
  [property_type |-> PyNone, floors |-> PyNone, size_useful_sqm |-> PyNone,
   rooms |-> PyNone, bathrooms |-> PyNone, plot_size_sqm |-> PyNone,
   terrace |-> PyStr("No"), balcony |-> PyStr("No"), parking |-> PyStr("No"),
   built_in_wardrobes |-> PyStr("No"), storage_room |-> PyStr("No"),
   garden |-> PyStr("No"), swimming_pool |-> PyStr("No"), condition |-> PyNone,
   orientation |-> PyNone, built_year |-> PyNone, heating_type |-> PyNone,
   energy_consumption_rating |-> PyNone, energy_emissions_rating |-> PyNone]

\* the trimmed text of an element, None when the element is missing
TextOrNone(el) == IF el.e THEN PyStr(Strip(el.text)) ELSE PyNone

\* without a details container the call never raises and returns the defaults
\* of the details fields, with the price, location and update date of the document
NoDetailsDefaults ==
  NoDetails =>
    /\ pc # "raised"
    /\ pc = "returned" =>
         /\ \A f \in DOMAIN DetailsDefaults : property_features[f] = DetailsDefaults[f]
         /\ property_features.price = TextOrNone(html.price)
         /\ property_features.location = TextOrNone(html.location)
         /\ property_features.ad_update_date =
              (IF html.date_update.e THEN TextOrNone(html.date_update.p) ELSE PyNone)

\* without a details container the step after the header returns the record
\* as the header left it
NoDetailsReturnsHeader ==
  (NoDetails /\ pc = "details") =>
    (pc' = "returned" /\ property_features' = property_features)

\* C11: when the document has no details container, extract_detailed_property_features
\* returns without raising, every field filled from the container holds its
\* default, and the values obtained before (source_url, price, location, update
\* date, advertiser name, info-features size) are returned as extracted.
C11_NoDetailsContainer == [](NoDetailsDefaults) /\ [][NoDetailsReturnsHeader]_vars

C11_Witness ==
  /\ NoDetails /\ pc = "returned"
  /\ html.info_features.e /\ html.info_features.span.e
  /\ property_features.size_built_sqm = PyStr("1234.5")
  /\ property_features.rooms = PyNone

\* the characters of a numeral of the source locale
NumeralChars == {"0", "1", "2", "3", "4", "5", "6", "7", "8", "9", ".", ","}

IsNumeral(s) == s # "" /\ \A i \in 1..Len(s) : SubSeq(s, i, i) \in NumeralChars

\* the numeral with every "." removed and "," written "."
RECURSIVE NumberOf(_)
NumberOf(s) ==
  IF s = "" THEN ""
  ELSE LET c == SubSeq(s, 1, 1)
       IN (IF c = "." THEN "" ELSE IF c = "," THEN "." ELSE c) \o NumberOf(Slice(s, 1, Len(s)))

\* the text between the first occurrence of before and the next occurrence of
\* after, "" when either is missing
Between(s, before, after) ==
  LET a == Find(s, before, 0)
      b == IF a = -1 THEN -1 ELSE Find(s, after, a + Len(before))
  IN IF a = -1 \/ b = -1 THEN "" ELSE Slice(s, a + Len(before), b)

\* the basic-feature item the loop is about to process
AtBasicItem == fn = "detailed" /\ pc = "basic" /\ idx <= Len(items)

ItemText == Strip(LiText(items[idx]))

\* the item is "<A> m² construidos, <B> m² útiles" with numerals A and B
CombinedSizeA(text) == Slice(text, 0, Find(text, " m² construidos, ", 0))
CombinedSizeB(text) == Between(text, " m² construidos, ", " m² útiles")

IsCombinedSize(text) ==
  /\ In(" m² construidos, ", text)
  /\ IsNumeral(CombinedSizeA(text)) /\ IsNumeral(CombinedSizeB(text))
  /\ text = CombinedSizeA(text) \o " m² construidos, " \o CombinedSizeB(text) \o " m² útiles"

CombinedSizeStep ==
  (AtBasicItem /\ IsCombinedSize(ItemText)) =>
    /\ pc' # "raised"
    /\ property_features'.size_built_sqm = PyStr(NumberOf(CombinedSizeA(ItemText)))
    /\ property_features'.size_useful_sqm = PyStr(NumberOf(CombinedSizeB(ItemText)))

\* C12: for every basic-feature item "<A> m² construidos, <B> m² útiles" with
\* numerals A and B of the source locale, size_built_sqm becomes A and
\* size_useful_sqm becomes B, each with every "." removed and then "," replaced
\* by "." (1.234,5 gives 1234.5).
C12_CombinedSize == [][CombinedSizeStep]_vars

\* the item contains "Parcela de" and "m²" and none of the patterns of the
\* rules before the plot-size rule
IsPlotItem(text) ==
  /\ In("Parcela de", text) /\ In("m²", text)
  /\ ~In("Casa o chalet independiente", text) /\ ~In("planta", text)
  /\ ~(In("m² construidos", text) /\ In("m² útiles", text))
  /\ ~In("habitaciones", text) /\ ~In("baño", text)

PlotSizeStep ==
  (AtBasicItem /\ IsPlotItem(ItemText)) =>
    /\ pc' # "raised"
    /\ property_features'.plot_size_sqm =
         PyStr(NumberOf(Between(ItemText, "Parcela de ", " m²")))

\* C13: for every basic-feature item that contains "Parcela de" and "m²" and is
\* reached by no earlier rule, the extractor does not raise and plot_size_sqm
\* becomes the N of "Parcela de N m²" with every "." removed and then ","
\* replaced by ".".
C13_PlotSize == [][PlotSizeStep]_vars

\* the pattern of each rule of the basic-features loop
RuleMatches(rule, text) ==
  CASE rule = "type" -> In("Casa o chalet independiente", text)
    [] rule = "floors" -> In("planta", text)
    [] rule = "sizes" -> In("m² construidos", text) /\ In("m² útiles", text)
    [] rule = "rooms" -> In("habitaciones", text)
    [] rule = "bathrooms" -> In("baño", text)
    [] rule = "plot" -> In("Parcela de", text) /\ In("m²", text)
    [] rule = "terrace" -> In("Terraza", text)
    [] rule = "balcony" -> In("balcón", text) \/ In("Balcón", text)
    [] rule = "parking" -> In("garaje", text)
    [] rule = "wardrobes" -> In("Armarios empotrados", text)
    [] rule = "storage" -> In("Trastero", text)
    [] rule = "condition" -> In("Segunda mano", text)
    [] rule = "orientation" -> In("Orientación", text)
    [] rule = "year" -> In("Construido en", text)
    [] rule = "heating" ->
         In("No dispone de calefacción", text) \/ In("Calefacción individual", text)

\* the field(s) a rule writes
RuleFields(rule) ==
  CASE rule = "type" -> {"property_type"}
    [] rule = "floors" -> {"floors"}
    [] rule = "sizes" -> {"size_built_sqm", "size_useful_sqm"}
    [] rule = "rooms" -> {"rooms"}
    [] rule = "bathrooms" -> {"bathrooms"}
    [] rule = "plot" -> {"plot_size_sqm"}
    [] rule = "terrace" -> {"terrace"}
    [] rule = "balcony" -> {"balcony"}
    [] rule = "parking" -> {"parking"}
    [] rule = "wardrobes" -> {"built_in_wardrobes"}
    [] rule = "storage" -> {"storage_room"}
    [] rule = "condition" -> {"condition"}
    [] rule = "orientation" -> {"orientation"}
    [] rule = "year" -> {"built_year"}
    [] rule = "heating" -> {"heating_type"}
    [] rule = "none" -> {}

\* the rule has written: a flag is "Yes", any other field holds a text
RuleFired(rule, pf) ==
  IF rule \in {"terrace", "balcony", "parking", "wardrobes", "storage"}
  THEN \A f \in RuleFields(rule) : pf[f] = PyStr("Yes")
  ELSE \E f \in RuleFields(rule) : pf[f].t = "str"

\* the order in which the claim lists the rules
ListedOrder ==
  <<"type", "floors", "sizes", "rooms", "bathrooms", "plot", "terrace", "balcony",
    "parking", "wardrobes", "storage", "condition", "orientation", "year", "heating">>

\* the same rules with condition between parking and the built-in wardrobes
ConditionAfterParking ==
  <<"type", "floors", "sizes", "rooms", "bathrooms", "plot", "terrace", "balcony",
    "parking", "condition", "wardrobes", "storage", "orientation", "year", "heating">>

\* the earliest rule of the order that the text matches, "none" if there is none
FirstRule(order, text) ==
  LET hits == {i \in 1..Len(order) : RuleMatches(order[i], text)}
  IN IF hits = {} THEN "none" ELSE order[SetMin(hits)]

\* processing an item writes the field(s) of the earliest matching rule of the
\* order and leaves every other field as it was
OneRuleStep(order) ==
  AtBasicItem =>
    LET rule == FirstRule(order, ItemText)
    IN /\ \A f \in (DOMAIN property_features) \ RuleFields(rule) :
            property_features'[f] = property_features[f]
       /\ (rule # "none" /\ pc' # "raised") => RuleFired(rule, property_features')

\* C16 as stated: each basic-feature item fires at most one rule, the earliest it
\* matches in the listed order (... parking; built-in wardrobes; storage room;
\* condition; ...), and changes only the field(s) of that rule.
C16_AsStated == [][OneRuleStep(ListedOrder)]_vars

\* C16 amended: the same with the condition rule ("Segunda mano") placed
\* between parking and the built-in wardrobes.
C16_FirstRule == [][OneRuleStep(ConditionAfterParking)]_vars

C16_Witness ==
  /\ fn = "detailed" /\ pc = "basic" /\ idx = 2
  /\ Strip(LiText(items[1])) = "Segunda mano/buen estado con Trastero"
  /\ property_features.condition = PyStr("buen estado con Trastero")
  /\ property_features.storage_room = PyStr("No")

\* the position of the first script whose text contains "var utag_data", 0 if none
FirstMarked(scripts) ==
  LET marked == {i \in 1..Len(scripts) :
                   scripts[i].string.t = "str" /\ In("var utag_data", scripts[i].string.s)}
  IN IF marked = {} THEN 0 ELSE SetMin(marked)

\* what the utag step gives when it reads that script and no other
ParseOnly(script, info) ==
  LET slice == UtagSlice([e |-> TRUE, string |-> script.string])
      utag_data == IF slice.e THEN json_loads(slice.s) ELSE Raise("")
      filled == IF slice.e /\ utag_data.exc = "" THEN FillFromUtag(utag_data.v, info)
                ELSE Ok(info)
  IN IF filled.exc # "" THEN [pc |-> "raised", exc |-> filled.exc, info |-> info]
     ELSE [pc |-> "details", exc |-> "", info |-> filled.v]

FirstScriptStep ==
  (fn = "full" /\ pc = "utag") =>
    LET k == FirstMarked(html.scripts)
    IN IF k = 0
       THEN pc' = "details" /\ property_info' = property_info
       ELSE [pc |-> pc', exc |-> exc', info |-> property_info'] =
              ParseOnly(html.scripts[k], property_info)

\* C17: the script the full extractor parses is the first script, in document
\* order, whose text contains "var utag_data"; no later script is consulted even
\* when that one yields nothing; and when no script contains the marker the
\* secondary lookup fills nothing: characteristics and ad_info stay empty.
C17_FirstScript == [][FirstScriptStep]_vars

C17_Witness ==
  /\ fn = "full" /\ pc = "details"
  /\ Len(html.scripts) = 2 /\ FirstMarked(html.scripts) = 1
  /\ html.scripts[2] = GoodScript
  /\ property_info.ad_info = EmptyDict

\* the direct text of span.particular: its text children, each trimmed, joined
\* by one space, the child elements left out
RECURSIVE DirectText(_)
DirectText(contents) ==
  IF contents = <<>> THEN ""
  ELSE LET rest == DirectText(Tail(contents))
       IN IF ~Head(contents).str THEN rest
          ELSE IF \A i \in 2..Len(contents) : ~contents[i].str
          THEN Strip(Head(contents).text)
          ELSE Strip(Strip(Head(contents).text) \o " " \o rest)

\* "PARTICULAR: T" when the marker exists with a non-empty direct text T
ParticularOrNone(doc) ==
  IF doc.particular.e /\ Strip(DirectText(doc.particular.contents)) # ""
  THEN PyStr("PARTICULAR: " \o Strip(DirectText(doc.particular.contents)))
  ELSE PyNone

\* the header of the detailed extractor has been read
HeaderRead == fn = "detailed" /\ pc \notin {"start", "header"}

\* C18 as stated: advertiser_name is the trimmed text of the name link when the
\* container yields a name; whenever it yields none (container absent, or present
\* without a name link) and the particular marker has a non-empty direct text T,
\* it is "PARTICULAR: " followed by T; otherwise it is absent.
C18_AsStated ==
  HeaderRead =>
    property_features.advertiser_name =
      (IF html.advertiser.e /\ html.advertiser.link.e /\ Strip(html.advertiser.link.text) # ""
       THEN PyStr(Strip(html.advertiser.link.text))
       ELSE ParticularOrNone(html))

\* C18 amended: with the container present, advertiser_name is the trimmed text
\* of its name link, and absent when it has no name link (the particular marker
\* is not consulted); with the container absent it is "PARTICULAR: " followed by
\* T when the marker has a non-empty direct text T, and absent otherwise.
C18_AdvertiserName ==
  HeaderRead =>
    property_features.advertiser_name =
      (IF html.advertiser.e
       THEN (IF html.advertiser.link.e THEN PyStr(Strip(html.advertiser.link.text))
             ELSE PyNone)
       ELSE ParticularOrNone(html))

C18_Witness ==
  /\ fn = "detailed" /\ pc = "returned"
  /\ html.advertiser.e /\ ~html.advertiser.link.e
  /\ html.particular.e /\ DirectText(html.particular.contents) = "Ana Ruiz"
  /\ property_features.advertiser_name = PyNone

(***************************************************************************)
(* process_all_data over a batch (src/app.py lines 95-126).                *)
(***************************************************************************)
\* the number of uploaded files the loop has gone through
Attempted ==
  IF app_pc = "done" THEN Len(html_files) ELSE IF app_pc = "files" THEN file_i - 1 ELSE 0

\* whether decoding or extraction of uploaded file i raises
Fails(i) == ExtractFile(html_files[i], extraction_method).exc # ""

\* the positions up to n of the failing (or of the non-failing) files, in upload order
RECURSIVE FilesWhere(_, _)
FilesWhere(n, failing) ==
  IF n = 0 THEN <<>>
  ELSE FilesWhere(n - 1, failing) \o (IF Fails(n) = failing THEN <<n>> ELSE <<>>)

\* the per-file lines among the texts written to the status line and as errors
FileTexts ==
  SelectSeq(status_text,
            LAMBDA t : t \notin {"Processing complete! Combined",
                                 "Processing complete! Processed", "Loaded"})

FileErrors ==
  SelectSeq(errors,
            LAMBDA t : t \notin {"Error loading previous data",
                                 "No data was processed successfully."})

\* C14: at every point of process_all_data, the files gone through so far were
\* each attempted once in upload order (one status line per file), each failing
\* one was reported and gave no record, each other one gave exactly one record
\* with filename, processed_date and extraction_method, the records are in
\* upload order, and at the end every uploaded file has been gone through
C14_Batch ==
  app_pc \in {"files", "done"} =>
    LET failed == FilesWhere(Attempted, TRUE)
        passed == FilesWhere(Attempted, FALSE)
    IN /\ FileTexts = [i \in 1..Attempted |-> "Processing " \o html_files[i].name \o "..."]
       /\ FileErrors = [k \in 1..Len(failed) |->
                          "Error processing " \o html_files[failed[k]].name]
       /\ Len(processed_records) = Len(passed)
       /\ \A k \in 1..Len(passed) :
            /\ Get(processed_records[k], "filename") = PyStr(html_files[passed[k]].name)
            /\ HasKey(processed_records[k], PyStr("processed_date"))
            /\ Get(processed_records[k], "processed_date").t = "str"
            /\ Get(processed_records[k], "extraction_method") = PyStr(extraction_method)

\* a batch whose first file fails and whose second gives the only record
C14_Witness ==
  /\ app_pc = "done" /\ Len(html_files) = 2
  /\ Fails(1) /\ ~Fails(2)
  /\ Len(processed_records) = 1
  /\ Get(processed_records[1], "filename") = PyStr("f2.html")
  /\ FileErrors = <<"Error processing f1.html">>

(***************************************************************************)
(* insert_property_data followed by get_all_properties (src/database.py).  *)
(***************************************************************************)
\* the promoted scalar columns of the properties table
PromotedColumns ==
  {"source_url", "price", "location", "property_type", "rooms", "bathrooms",
   "size_built_sqm", "size_useful_sqm"}

\* the columns get_all_properties copies from the row itself
BasicColumns == {"filename", "processed_date", "extraction_method"}

\* row i of d holds every key of the record with the value inserted, and the row id
Reconstitutes(d, i, record) ==
  /\ "id" \in d.columns /\ d.rows[i]["id"] = PyInt(i)
  /\ \A k \in Keys(record) : k \in d.columns /\ d.rows[i][k] = Get(record, k)

\* row i of d holds, in the given columns, what insert_property_data promoted
HoldsPromoted(d, i, record, columns) ==
  \A c \in columns : c \in d.columns /\ d.rows[i][c] = AsText(Promoted(record)[c])

\* a step that is a call of get_all_properties
GetAllStep == inserted' = inserted

\* C15 as stated: get_all_properties returns one row per inserted record, in
\* insertion order, each holding every key of its record with the inserted
\* value, the row id and the promoted columns
C15_AsStated ==
  [][GetAllStep =>
       /\ Len(df'.rows) = Len(inserted)
       /\ \A i \in 1..Len(inserted) :
            /\ Reconstitutes(df', i, inserted[i])
            /\ HoldsPromoted(df', i, inserted[i], BasicColumns \cup PromotedColumns)]_vars

\* C15: get_all_properties returns one row per inserted record, in insertion
\* order, each holding every key of its record with the inserted value, the
\* row id, and filename, processed_date and extraction_method as stored
C15_RoundTrip ==
  [][GetAllStep =>
       /\ Len(df'.rows) = Len(inserted)
       /\ \A i \in 1..Len(inserted) :
            /\ Reconstitutes(df', i, inserted[i])
            /\ HoldsPromoted(df', i, inserted[i], BasicColumns)]_vars

\* two different records read back, one of them without a price key
C15_Witness ==
  /\ Len(inserted) >= 2 /\ Len(df.rows) = Len(inserted)
  /\ inserted[1] # inserted[2]
  /\ ~HasKey(inserted[1], PyStr("price")) /\ HasKey(inserted[2], PyStr("price"))
  /\ Reconstitutes(df, 2, inserted[2])

(***************************************************************************)
(* remove_duplicates (src/app.py lines 342-374).                           *)
(***************************************************************************)
\* a step that is a call of remove_duplicates
RemoveDuplicatesStep == app_pc \in {"idle", "done"} /\ app_pc' = app_pc

\* the positions of the rows that are the first with their source_url, or have none
FirstOrAbsent(rows) ==
  {i \in 1..Len(rows) :
     \/ rows[i]["source_url"] = PyNone
     \/ ~\E j \in 1..(i - 1) : rows[j]["source_url"] = rows[i]["source_url"]}

PreviousRows ==
  IF data_file.e /\ data_file.readable THEN data_file.frame.rows ELSE <<>>

\* the step that ends process_all_data
CompleteStep == app_pc = "files" /\ app_pc' = "done"

\* C20: when process_all_data completes, processed_data holds the rows of the
\* previous-data file followed by the records extracted in this run, nothing
\* else, whichever of the two is empty, and is left as it was when both are
C20_SessionResult ==
  [][CompleteStep =>
       IF PreviousRows = <<>> /\ processed_records = <<>>
       THEN processed_data' = processed_data
       ELSE /\ Len(processed_data'.rows) = Len(PreviousRows) + Len(processed_records)
            /\ \A i \in 1..Len(PreviousRows) :
                 \A c \in DOMAIN PreviousRows[i] :
                   /\ c \in processed_data'.columns
                   /\ processed_data'.rows[i][c] = PreviousRows[i][c]
            /\ \A j \in 1..Len(processed_records) :
                 \A k \in Keys(processed_records[j]) :
                   /\ k \in processed_data'.columns
                   /\ processed_data'.rows[Len(PreviousRows) + j][k] =
                        Get(processed_records[j], k)]_vars

\* a run that ended with two previous rows followed by one new record
C20_Witness ==
  /\ app_pc = "done"
  /\ Len(PreviousRows) = 2 /\ Len(processed_records) = 1
  /\ Len(processed_data.rows) = 3
  /\ processed_data.rows[3]["filename"] = Get(processed_records[1], "filename")
====
